---- MODULE Spec2Model ----
(***************************************************************************)
(* Property report generator: the upload handler of src/app.py, the data  *)
(* normalizer of src/utils/data_processor.py and the composer of          *)
(* src/utils/pdf_generator.py, as a state machine.                         *)
(*                                                                         *)
(* Specifications: Spec and SpecCompose (the handler from upload to the    *)
(* sent document), SpecRequests (several requests at the same time),       *)
(* SpecImages (extract_excel_images step by step), SpecBoot and            *)
(* SpecBootFair (the initialization thread and the request guard), and     *)
(* one for each function studied on its own: SpecAvg, SpecPrice,           *)
(* SpecExtract, SpecValidate, SpecLetters, SpecBrand, SpecStatistics,      *)
(* SpecLayout.                                                             *)
(*                                                                         *)
(* Text is modelled as a sequence of one-character strings wherever the    *)
(* code looks inside it (prices), and as a TLA+ string where the code only *)
(* compares it (categories, flags, column labels).  The labels             *)
(* 'Floor Size (m^2)' and '$/m^2' are written with a plain 2.              *)
(* A DataFrame index label is the 1-based position of the row.             *)
(***************************************************************************)
EXTENDS Integers, Sequences, FiniteSets, TLC

VARIABLES
    header,     \* the header row of the uploaded file, by position (df.columns)
    table,      \* the data rows of the uploaded file (the DataFrame)
    archive,    \* the uploaded file seen as a ZIP archive (xl/media and its files)
    pc,         \* position of the request in the handler
    calls,      \* the pipeline components executed so far, in order
    result,     \* what process_excel_data returned or raised
    document,   \* what generate_pdf composed
    fnIn,       \* argument of the pure function under study
    fnOut,      \* its result
    disk,       \* the file system: what is stored under each existing path
    reqs,       \* the requests being handled concurrently, by request id
    clock,      \* datetime.now(), in whole seconds
    initialization_complete  \* the flag of app.py the request guard reads

vars == <<header, table, archive, pc, calls, result, document, fnIn, fnOut,
          disk, reqs, clock, initialization_complete>>

(***************************************************************************)
(* Bounds of the model.                                                    *)
(***************************************************************************)
MaxRows == 2        \* rows of an enumerated table
MaxImages == 2      \* image files in xl/media
MaxStrLen == 3      \* characters of an enumerated price string
MaxAvgRows == 2     \* rows of an enumerated table of the average-price study
MaxAddrLen == 4     \* characters of an enumerated address text
MaxLetters == 2     \* letters of an enumerated column-letter string
MaxProps == 7       \* included rows of one category in a table of the composer study
NumRequests == 2    \* requests handled at the same time
MaxClock == 1       \* seconds that pass while the requests are handled

None == "None"

Range(s) == {s[i] : i \in 1..Len(s)}

\* All sequences over S of length at most n.
SeqsUpTo(S, n) == UNION {[1..k -> S] : k \in 0..n}

(***************************************************************************)
(* Schema Validator: validate_headers.                                     *)
(***************************************************************************)
Letters == <<"A","B","C","D","E","F","G","H","I","J","K","L","M",
             "N","O","P","Q","R","S","T","U","V","W","X","Y","Z">>

\* ord(char.upper()) - ord('A')
LetterOffset(c) == (CHOOSE i \in 1..26 : Letters[i] = c) - 1

\* The expected (column letter, label) pairs, in the order of the dict.
expected_headers ==
    << << <<"A">>,     "Type" >>,
       << <<"B">>,     "Property Photo" >>,
       << <<"C">>,     "Street Address" >>,
       << <<"D">>,     "Suburb" >>,
       << <<"E">>,     "State" >>,
       << <<"F">>,     "Postcode" >>,
       << <<"G">>,     "Site Zoning" >>,
       << <<"H">>,     "Property Type" >>,
       << <<"K">>,     "Car" >>,
       << <<"N">>,     "Floor Size (m2)" >>,
       << <<"A","L">>, "Last Listed Price (Sold/For Sale)" >>,
       << <<"A","T">>, "Total Lease Price (Base + Outgoings)" >>,
       << <<"A","Z">>, "Allowable Use in Zone (T/F)" >>,
       << <<"B","A">>, "$/m2" >>,
       << <<"B","D">>, "PUT IN REPORT (T/F)" >>,
       << <<"B","F">>, "Busi's Comment" >> >>

\* Plain base 26 with A as the digit zero, in which 'A' and 'AA' coincide.
column_letter_to_index_plain(col_letter) ==
    LET acc[k \in 0..Len(col_letter)] ==
            IF k = 0 THEN 0
            ELSE acc[k-1] * 26 + LetterOffset(col_letter[k])
    IN  acc[Len(col_letter)]

\* result = result * 26 + (ord(char) - ord('A')) + 1 per character; return result - 1
column_letter_to_index(col_letter) ==
    LET acc[k \in 0..Len(col_letter)] ==
            IF k = 0 THEN 0
            ELSE acc[k-1] * 26 + LetterOffset(col_letter[k]) + 1
    IN  acc[Len(col_letter)] - 1

\* A check that goes through all the headers and reports the last violation.
LastViolation(actual_columns) ==
    LET bad(k) ==
            LET col_index == column_letter_to_index(expected_headers[k][1])
            IN  \/ col_index >= Len(actual_columns)
                \/ actual_columns[col_index + 1] # expected_headers[k][2]
        viol == {k \in 1..Len(expected_headers) : bad(k)}
    IN  IF viol = {} THEN 0 ELSE CHOOSE k \in viol : \A j \in viol : k >= j

\* The first expected header, in dict order, that is out of range or differs;
\* 0 when there is none.  The loop returns at the first violation.
FirstViolation(actual_columns) ==
    LET bad(k) ==
            LET col_index == column_letter_to_index(expected_headers[k][1])
            IN  \/ col_index >= Len(actual_columns)
                \/ actual_columns[col_index + 1] # expected_headers[k][2]
        viol == {k \in 1..Len(expected_headers) : bad(k)}
    IN  IF viol = {} THEN 0 ELSE CHOOSE k \in viol : \A j \in viol : k <= j

validate_headers(actual_columns) ==
    LET k == FirstViolation(actual_columns)
    IN  IF k = 0 THEN [valid |-> TRUE, error |-> None]
        ELSE [valid |-> FALSE, error |-> expected_headers[k][1]]

\* The columns process_excel_data requires, in list order.
required_columns ==
    << "Type", "Property Photo", "Street Address", "Suburb", "State", "Postcode",
       "Site Zoning", "Property Type", "Car", "Floor Size (m2)", "Sale Price",
       "Last Listed Price (Sold/For Sale)", "Total Lease Price (Base + Outgoings)",
       "PUT IN REPORT (T/F)", "Busi's Comment", "$/m2" >>

(***************************************************************************)
(* Header rows of uploaded files.  A well-formed file has the expected     *)
(* labels at the expected positions, 'Sale Price' in a column the          *)
(* validator does not look at, and other labels elsewhere.                 *)
(***************************************************************************)
HeaderWidth == column_letter_to_index(<<"B","F">>) + 1
SalePricePos == column_letter_to_index(<<"A","K">>) + 1

WellFormedHeader ==
    [p \in 1..HeaderWidth |->
        LET hit == {k \in 1..Len(expected_headers) :
                       column_letter_to_index(expected_headers[k][1]) + 1 = p}
        IN  IF hit # {} THEN expected_headers[CHOOSE k \in hit : TRUE][2]
            ELSE IF p = SalePricePos THEN "Sale Price"
            ELSE "Unnamed"]

\* The column holding label l is renamed (the label is no longer in the file).
WithoutColumn(row, l) == [p \in 1..Len(row) |-> IF row[p] = l THEN "Unnamed" ELSE row[p]]

\* Two columns are exchanged (every label is still in the file).
Swapped(row, p, q) ==
    [i \in 1..Len(row) |-> IF i = p THEN row[q] ELSE IF i = q THEN row[p] ELSE row[i]]

HeaderRows ==
    { WellFormedHeader,
      Swapped(WellFormedHeader, 3, 4),
      WithoutColumn(WellFormedHeader, "Type"),
      WithoutColumn(WellFormedHeader, "PUT IN REPORT (T/F)"),
      WithoutColumn(WithoutColumn(WellFormedHeader, "Floor Size (m2)"), "$/m2"),
      WithoutColumn(WellFormedHeader, "Sale Price"),
      SubSeq(WellFormedHeader, 1, HeaderWidth - 1) }

\* col in df.columns
HasColumn(hdr, col) == col \in Range(hdr)


(***************************************************************************)
(* Text and numbers.  A decimal number is [num, scale]: num / 10^scale.    *)
(***************************************************************************)
DigitChars == <<"0","1","2","3","4","5","6","7","8","9">>
Digits == Range(DigitChars)
DigitVal(c) == (CHOOSE i \in 1..10 : DigitChars[i] = c) - 1

Pow10(k) == LET p[i \in 0..k] == IF i = 0 THEN 1 ELSE 10 * p[i-1] IN p[k]

\* str.replace(ch, '')
Remove(s, ch) == SelectSeq(s, LAMBDA c : c # ch)

\* The value of a sequence of digits ('' is 0).
DigitsVal(ds) ==
    LET v[k \in 0..Len(ds)] == IF k = 0 THEN 0 ELSE 10 * v[k-1] + DigitVal(ds[k])
    IN  v[Len(ds)]

\* Positions of '.' in s.
DotsOf(s) == {i \in 1..Len(s) : s[i] = "."}

\* digits [ '.' digits ], with a digit on at least one side of the point.
IsUnsignedDecimal(s) ==
    /\ \A i \in 1..Len(s) : s[i] \in Digits \cup {"."}
    /\ Cardinality(DotsOf(s)) <= 1
    /\ \E i \in 1..Len(s) : s[i] \in Digits

UnsignedDecimal(s) ==
    LET ds == Remove(s, ".")
        d  == IF DotsOf(s) = {} THEN Len(s) ELSE CHOOSE i \in DotsOf(s) : TRUE
    IN  [num |-> DigitsVal(ds), scale |-> Len(s) - d]

HasSign(s) == Len(s) > 0 /\ s[1] \in {"+", "-"}
Unsigned(s) == IF HasSign(s) THEN Tail(s) ELSE s
SignOf(s) == IF Len(s) > 0 /\ s[1] = "-" THEN -1 ELSE 1

\* The text forms of the float specials read by the numeric parser.
InfTexts == { <<"i","n","f">>, <<"i","n","f","i","n","i","t","y">> }

\* A parser that reads every text that is no number as zero.
to_numeric_zero(s) ==
    IF Unsigned(s) \in InfTexts THEN [kind |-> "inf", sign |-> SignOf(s)]
    ELSE IF IsUnsignedDecimal(Unsigned(s))
    THEN [kind |-> "num",
          num |-> SignOf(s) * UnsignedDecimal(Unsigned(s)).num,
          scale |-> UnsignedDecimal(Unsigned(s)).scale]
    ELSE [kind |-> "num", num |-> 0, scale |-> 0]

\* pd.to_numeric(text, errors='coerce') on one element: a finite decimal,
\* an infinity, or NaN (also for every text that is no number).  Exponent
\* notation is not modelled: no text of the model contains an 'e'.
to_numeric(s) ==
    IF Unsigned(s) \in InfTexts THEN [kind |-> "inf", sign |-> SignOf(s)]
    ELSE IF IsUnsignedDecimal(Unsigned(s))
    THEN [kind |-> "num",
          num |-> SignOf(s) * UnsignedDecimal(Unsigned(s)).num,
          scale |-> UnsignedDecimal(Unsigned(s)).scale]
    ELSE [kind |-> "nan"]

\* round(x) of Python for x = n / d, d > 0: nearest integer, ties to even.
RoundHalfEven(n, d) ==
    LET q == n \div d
        r == n % d
    IN  IF 2 * r < d THEN q
        ELSE IF 2 * r > d THEN q + 1
        ELSE IF q % 2 = 0 THEN q ELSE q + 1


(***************************************************************************)
(* Data Normalizer: statistics.                                            *)
(***************************************************************************)
Categories == <<"For Lease", "Already Leased", "For Sale", "Sold">>

\* A selection that forgets the inclusion flag.
MatchingIdxAnyFlag(tbl, ty, fl) ==
    LET keep[k \in 0..Len(tbl)] ==
            IF k = 0 THEN << >>
            ELSE IF tbl[k].type = ty THEN Append(keep[k-1], k) ELSE keep[k-1]
    IN  keep[Len(tbl)]

\* A selection that forgets the category.
MatchingIdxAnyType(tbl, ty, fl) ==
    LET keep[k \in 0..Len(tbl)] ==
            IF k = 0 THEN << >>
            ELSE IF tbl[k].flag = fl THEN Append(keep[k-1], k) ELSE keep[k-1]
    IN  keep[Len(tbl)]

\* df[(df['Type'] == ty) & (df['PUT IN REPORT (T/F)'] == fl)].index, in row order
MatchingIdx(tbl, ty, fl) ==
    LET keep[k \in 0..Len(tbl)] ==
            IF k = 0 THEN << >>
            ELSE IF tbl[k].type = ty /\ tbl[k].flag = fl
                 THEN Append(keep[k-1], k) ELSE keep[k-1]
    IN  keep[Len(tbl)]

\* len(df[df['Type'] == ty])
TypeCount(tbl, ty) == Cardinality({i \in 1..Len(tbl) : tbl[i].type = ty})

\* The '$/m2' text of a row with '$' and ',' removed, as a number.
PriceOf(row) == to_numeric(Remove(Remove(row.ppsqm, "$"), ","))

calculate_average_price_per_sqm(hdr, tbl, property_type, put_in_report) ==
    LET filtered == Range(MatchingIdx(tbl, property_type, put_in_report))
        val(i)   == PriceOf(tbl[i])
        fin      == {i \in filtered : val(i).kind = "num"}
        posinf   == {i \in filtered : val(i).kind = "inf" /\ val(i).sign = 1}
        neginf   == {i \in filtered : val(i).kind = "inf" /\ val(i).sign = -1}
        S        == IF fin = {} THEN 0
                    ELSE CHOOSE m \in {val(i).scale : i \in fin} :
                             \A i \in fin : val(i).scale <= m
        total[k \in 0..Len(tbl)] ==
                    IF k = 0 THEN 0
                    ELSE IF k \in fin
                         THEN total[k-1] + val(k).num * Pow10(S - val(k).scale)
                         ELSE total[k-1]
    IN  IF filtered = {} THEN [raised |-> None, value |-> 0]
        ELSE IF ~HasColumn(hdr, "$/m2") THEN [raised |-> None, value |-> 0]
        ELSE IF fin \cup posinf \cup neginf = {} THEN [raised |-> None, value |-> 0]
        ELSE IF posinf # {} /\ neginf # {} THEN [raised |-> None, value |-> 0]
        ELSE IF posinf \cup neginf # {} THEN [raised |-> "OverflowError", value |-> 0]
        ELSE [raised |-> None,
              value |-> RoundHalfEven(total[Len(tbl)], Cardinality(fin) * Pow10(S))]


(***************************************************************************)
(* Data Normalizer: embedded images.                                       *)
(* archive.kind: "nopath" (no source file given), "notzip" (the file does  *)
(* not open as a ZIP archive, e.g. a CSV), "nomedia" (no xl/media folder), *)
(* "media"; archive.media[i]: whether reading the i-th image file of       *)
(* xl/media (in listdir order) succeeds.  The data URL of the i-th file    *)
(* is data:image/i.                                                       *)
(***************************************************************************)
DataUrl(i) == "data:image/" \o ToString(i)

extract_excel_images(arch) ==
    IF arch.kind # "media" THEN << >>
    ELSE [k \in {i \in 1..Len(arch.media) : arch.media[i]} |-> [data_url |-> DataUrl(k)]]

\* An order that serves the For Sale rows first.
ImageOrderSaleFirst(tbl) ==
    MatchingIdx(tbl, "For Sale", "T") \o MatchingIdx(tbl, "For Lease", "T")

\* The rows in the order images are handed out: included For Lease rows,
\* then included For Sale rows.
ImageOrder(tbl) == MatchingIdx(tbl, "For Lease", "T") \o MatchingIdx(tbl, "For Sale", "T")

\* A mapping that looks up an image for every included row, whether or not
\* one is left.
map_images_to_properties_unchecked(hdr, tbl, images) ==
    LET order == ImageOrder(tbl)
    IN  IF \E j \in 1..Len(order) : j \notin DOMAIN images
        THEN [raised |-> "KeyError", image_mapping |-> << >>]
        ELSE [raised |-> None,
              image_mapping |-> [idx \in Range(order) |->
                  images[CHOOSE j \in 1..Len(order) : order[j] = idx].data_url]]

map_images_to_properties(hdr, tbl, images) ==
    LET order == ImageOrder(tbl)
        loop[j \in 0..Len(order)] ==
            IF j = 0 THEN [raised |-> None, image_mapping |-> << >>, image_counter |-> 1]
            ELSE LET before == loop[j-1]
                     c == before.image_counter
                 IN  IF before.raised # None THEN before
                     ELSE IF c <= Cardinality(DOMAIN images)
                     THEN IF c \in DOMAIN images
                          THEN [raised |-> None,
                                image_mapping |->
                                    (order[j] :> images[c].data_url) @@ before.image_mapping,
                                image_counter |-> c + 1]
                          ELSE [before EXCEPT !.raised = "KeyError"]
                     ELSE before
    IN  IF DOMAIN images = {} THEN [raised |-> None, image_mapping |-> << >>]
        ELSE IF ~HasColumn(hdr, "PUT IN REPORT (T/F)") \/ ~HasColumn(hdr, "Type")
        THEN [raised |-> "KeyError", image_mapping |-> << >>]
        ELSE [raised |-> loop[Len(order)].raised,
              image_mapping |-> loop[Len(order)].image_mapping]

(***************************************************************************)
(* Data Normalizer: format_price_string.  A price value is a number        *)
(* [kind |-> "num", num, scale] (num / 10^scale, not negative) or a text   *)
(* [kind |-> "str", text].  The result is a text.                          *)
(***************************************************************************)
NumValue(n, k) == [kind |-> "num", num |-> n, scale |-> k]
StrValue(t) == [kind |-> "str", text |-> t]

\* str(n) for n >= 0
RECURSIVE IntChars(_)
IntChars(n) == IF n < 10 THEN <<DigitChars[n + 1]>>
               ELSE Append(IntChars(n \div 10), DigitChars[(n % 10) + 1])

\* The digits of n, at least w of them (zero-padded on the left).
RECURSIVE Padded(_, _)
Padded(n, w) == IF w <= 1 THEN IntChars(n)
                ELSE IF n < Pow10(w - 1) THEN <<"0">> \o Padded(n, w - 1)
                ELSE IntChars(n)

\* f"{n:,}" for n >= 0
RECURSIVE GroupInt(_)
GroupInt(n) == IF n < 1000 THEN IntChars(n)
               ELSE GroupInt(n \div 1000) \o <<",">> \o Padded(n % 1000, 3)

\* x % 1 == 0 for x = num / 10^scale
IsWhole(num, scale) == num % Pow10(scale) = 0

\* x in hundredths, rounded as the 'f' format rounds.  With more than two
\* fraction digits a value exactly half-way between two hundredths is
\* rounded by its binary expansion; no value of the model is half-way.
Hundredths(num, scale) ==
    IF scale <= 2 THEN num * Pow10(2 - scale)
    ELSE RoundHalfEven(num, Pow10(scale - 2))

\* A format that writes two decimals for whole numbers too.
FormatNumberTwoDecimals(num, scale) ==
    <<"$">> \o GroupInt(Hundredths(num, scale) \div 100) \o <<".">>
            \o Padded(Hundredths(num, scale) % 100, 2)

\* f"${int(x):,}" when x is whole, f"${x:,.2f}" otherwise
FormatNumber(num, scale) ==
    IF IsWhole(num, scale) THEN <<"$">> \o GroupInt(num \div Pow10(scale))
    ELSE LET h == Hundredths(num, scale)
         IN  <<"$">> \o GroupInt(h \div 100) \o <<".">> \o Padded(h % 100, 2)

\* s.isdigit()
IsDigitText(s) == Len(s) > 0 /\ \A i \in 1..Len(s) : s[i] \in Digits

\* price_value.replace(',', '').replace('.', '').isdigit()
LooksNumeric(t) == IsDigitText(Remove(Remove(t, ","), "."))

format_price_string(price_value) ==
    IF price_value.kind = "num"
    THEN FormatNumber(price_value.num, price_value.scale)
    ELSE IF LooksNumeric(price_value.text)
    THEN LET clean_price == Remove(Remove(price_value.text, "$"), ",")
         IN  IF IsUnsignedDecimal(clean_price)
             THEN FormatNumber(UnsignedDecimal(clean_price).num,
                               UnsignedDecimal(clean_price).scale)
             ELSE price_value.text
    ELSE price_value.text


(***************************************************************************)
(* Data Normalizer: record selection and process_excel_data.               *)
(***************************************************************************)
\* image_dict.get(idx)
ImageFor(image_dict, idx) == IF idx \in DOMAIN image_dict THEN image_dict[idx] ELSE None

\* A cell without a value (NaN after the file is read).
NaN == [kind |-> "nan"]

\* pd.notna(v)
notna(v) == v.kind # "nan"

\* str(v) of a cell that is a text or NaN.
Str(v) == IF v.kind = "nan" THEN <<"n","a","n">> ELSE v.text

LowerLetters == <<"a","b","c","d","e","f","g","h","i","j","k","l","m",
                  "n","o","p","q","r","s","t","u","v","w","x","y","z">>

LowerChar(c) ==
    IF c \in Range(Letters) THEN LowerLetters[CHOOSE i \in 1..26 : Letters[i] = c] ELSE c

UpperChar(c) ==
    IF c \in Range(LowerLetters) THEN Letters[CHOOSE i \in 1..26 : LowerLetters[i] = c] ELSE c

\* str.lower()
Lower(s) == [i \in 1..Len(s) |-> LowerChar(s[i])]

\* The characters str.split() takes as separators.
Whitespace == {" ", "\t", "\n"}

\* A split at every single space, which keeps empty words.
SplitAtEverySpace(s) ==
    LET scan[k \in 0..Len(s)] ==
            IF k = 0 THEN [words |-> << >>, word |-> << >>]
            ELSE LET before == scan[k-1]
                 IN  IF s[k] = " "
                     THEN [words |-> Append(before.words, before.word), word |-> << >>]
                     ELSE [words |-> before.words, word |-> Append(before.word, s[k])]
        last == scan[Len(s)]
    IN  Append(last.words, last.word)

\* str.split(): the maximal runs of characters that are not whitespace.
Split(s) ==
    LET scan[k \in 0..Len(s)] ==
            IF k = 0 THEN [words |-> << >>, word |-> << >>]
            ELSE LET before == scan[k-1]
                 IN  IF s[k] \in Whitespace
                     THEN IF before.word = << >> THEN before
                          ELSE [words |-> Append(before.words, before.word), word |-> << >>]
                     ELSE [words |-> before.words, word |-> Append(before.word, s[k])]
        last == scan[Len(s)]
    IN  IF last.word = << >> THEN last.words ELSE Append(last.words, last.word)

\* str.capitalize(): the first character in upper case, the others in lower case.
Capitalize(w) == IF w = << >> THEN << >> ELSE <<UpperChar(w[1])>> \o Lower(Tail(w))

\* " ".join(words)
JoinWithSpace(words) ==
    LET acc[k \in 0..Len(words)] ==
            IF k = 0 THEN << >>
            ELSE IF k = 1 THEN words[1]
            ELSE acc[k-1] \o <<" ">> \o words[k]
    IN  acc[Len(words)]

\* " ".join([word.capitalize() for word in str(v).lower().split()])
TitleCase(v) ==
    LET words == Split(Lower(Str(v)))
    IN  JoinWithSpace([j \in 1..Len(words) |-> Capitalize(words[j])])

NotDisclosed == <<"N","o","t"," ","D","i","s","c","l","o","s","e","d">>

\* pd.notna(v) and v != '' : format_price_string(v), else "Not Disclosed"
DisplayPrice(v) ==
    IF notna(v) /\ v # StrValue(<< >>) THEN format_price_string(v) ELSE NotDisclosed

\* The entry of one selected row (idx is its index label); the image is
\* stored under 'image_data'.
extract_property_data(idx, row, property_type, image_data) ==
    [row |-> idx,
     type |-> property_type,
     suburb |-> Str(row.suburb),
     suburb_formatted |-> TitleCase(row.suburb),
     street_address |-> TitleCase(row.street_address),
     price |-> IF property_type = "For Lease" THEN DisplayPrice(row.lease_price)
               ELSE IF property_type = "For Sale" THEN DisplayPrice(row.last_listed_price)
               ELSE << >>,
     image_data |-> image_data]

\* [col for col in required_columns if col not in df.columns]
MissingColumns(hdr) == SelectSeq(required_columns, LAMBDA col : ~HasColumn(hdr, col))

PropertyList(tbl, ty, image_dict) ==
    LET sel == MatchingIdx(tbl, ty, "T")
    IN  [j \in 1..Len(sel) |->
            extract_property_data(sel[j], tbl[sel[j]], ty, ImageFor(image_dict, sel[j]))]

\* Statistics whose criteria count takes every row of the category.
CategoryStatisticsAnyFlag(hdr, tbl, ty) ==
    [total    |-> TypeCount(tbl, ty),
     criteria |-> TypeCount(tbl, ty),
     avg_price |-> calculate_average_price_per_sqm(hdr, tbl, ty, "T").value]

CategoryStatistics(hdr, tbl, ty) ==
    [total    |-> TypeCount(tbl, ty),
     criteria |-> Len(MatchingIdx(tbl, ty, "T")),
     avg_price |-> calculate_average_price_per_sqm(hdr, tbl, ty, "T").value]

Raised(what, missing) == [status |-> what, missing |-> missing]

process_excel_data(hdr, tbl, arch) ==
    LET extracted == IF arch.kind = "nopath" THEN << >> ELSE extract_excel_images(arch)
        mapped    == map_images_to_properties(hdr, tbl, extracted)
        missing   == MissingColumns(hdr)
        avgRaised == {calculate_average_price_per_sqm(hdr, tbl, Categories[c], "T").raised :
                         c \in 1..Len(Categories)} \ {None}
    IN  IF mapped.raised # None THEN Raised(mapped.raised, << >>)
        ELSE IF missing # << >> THEN Raised("ValueError", missing)
        ELSE IF avgRaised # {} THEN Raised("OverflowError", << >>)
        ELSE [status |-> "ok",
              missing |-> << >>,
              statistics |->
                  [for_lease      |-> CategoryStatistics(hdr, tbl, "For Lease"),
                   already_leased |-> CategoryStatistics(hdr, tbl, "Already Leased"),
                   for_sale       |-> CategoryStatistics(hdr, tbl, "For Sale"),
                   sold           |-> CategoryStatistics(hdr, tbl, "Sold")],
              for_lease_properties |-> PropertyList(tbl, "For Lease", mapped.image_mapping),
              for_sale_properties  |-> PropertyList(tbl, "For Sale", mapped.image_mapping)]


(***************************************************************************)
(* Report Composer: the image cell of a property entry.  Both composers    *)
(* read the key 'image' of the entry.                                      *)
(***************************************************************************)
Placeholder == "No Image Available"

PropertyImage(property_data) ==
    IF "image" \in DOMAIN property_data
       /\ property_data.image # None
       /\ property_data.image # "nan"
    THEN property_data.image
    ELSE Placeholder

RenderProperty(property_data) ==
    [row |-> property_data.row, image |-> PropertyImage(property_data)]

RenderList(properties) == [j \in 1..Len(properties) |-> RenderProperty(properties[j])]

(***************************************************************************)
(* Report Composer: the story, the list of elements generate_pdf hands to  *)
(* the document builder.  A PageBreak element ends a page.  Spacers and    *)
(* the inner layout of the cover, map and next-steps pages are left out.   *)
(***************************************************************************)
Element(kind, section_title) ==
    [kind |-> kind, section |-> section_title, row |-> 0, image |-> None, color |-> ""]

PageBreak == Element("break", "")

\* create_cover_page(...): the cover elements, then a PageBreak.
create_cover_page == <<Element("cover", ""), PageBreak>>

\* create_map_page(...): the map and the statistics table, then a PageBreak.
create_map_page == <<Element("map", ""), PageBreak>>

\* create_next_steps_page(...): the closing elements, no PageBreak.
create_next_steps_page == <<Element("next_steps", "")>>

\* The concatenation of a sequence of sequences.
Concat(seqs) ==
    LET acc[k \in 0..Len(seqs)] == IF k = 0 THEN << >> ELSE acc[k-1] \o seqs[k]
    IN  acc[Len(seqs)]

\* Chunks of four properties.
ChunksOfFour(properties) ==
    [c \in 1..((Len(properties) + 3) \div 4) |->
        SubSeq(properties, 4 * (c - 1) + 1,
               IF 4 * c < Len(properties) THEN 4 * c ELSE Len(properties))]

\* [properties[i:i+3] for i in range(0, len(properties), 3)]
Chunks(properties) ==
    [c \in 1..((Len(properties) + 2) \div 3) |->
        SubSeq(properties, 3 * (c - 1) + 1,
               IF 3 * c < Len(properties) THEN 3 * c ELSE Len(properties))]

PropertyElement(section_title, property_data) ==
    [kind |-> "property", section |-> section_title,
     row |-> RenderProperty(property_data).row,
     image |-> RenderProperty(property_data).image,
     color |-> ""]

\* A divider coloured by the position counted from one.
DividerOneBased(section_title, i) ==
    [Element("divider", section_title) EXCEPT
        !.color = IF (i + 1) % 2 = 0 THEN "blue" ELSE "orange"]

\* The divider under property i of a page, i counted from zero:
\* divider_color = BLUE_COLOR if i % 2 == 0 else ORANGE_COLOR
Divider(section_title, i) ==
    [Element("divider", section_title) EXCEPT
        !.color = IF i % 2 = 0 THEN "blue" ELSE "orange"]

\* A page body with a divider after every property.
ChunkElementsDividerAfterEach(section_title, chunk) ==
    <<Element("header", section_title), Element("header_rule", section_title)>>
    \o Concat([i \in 1..Len(chunk) |->
                  <<PropertyElement(section_title, chunk[i]),
                    Divider(section_title, i - 1)>>])

\* The elements of one chunk: the page header and the rule under it, then
\* the properties, a divider after each but the last (i < len(chunk) - 1).
ChunkElements(section_title, chunk) ==
    <<Element("header", section_title), Element("header_rule", section_title)>>
    \o Concat([i \in 1..Len(chunk) |->
                  <<PropertyElement(section_title, chunk[i])>>
                  \o (IF i - 1 < Len(chunk) - 1
                      THEN <<Divider(section_title, i - 1)>> ELSE << >>)])

\* A PageBreak after each chunk but the last, and one at the end.
create_property_pages(section_title, properties) ==
    LET property_chunks == Chunks(properties)
    IN  Concat([page_index \in 1..Len(property_chunks) |->
                   ChunkElements(section_title, property_chunks[page_index])
                   \o (IF page_index - 1 < Len(property_chunks) - 1
                       THEN <<PageBreak>> ELSE << >>)])
        \o <<PageBreak>>

\* A section that is composed for an empty list too.
ListingSectionAlways(section_title, properties) ==
    create_property_pages(section_title, properties)

\* if data[...]: story.extend(create_property_pages(...))
ListingSection(section_title, properties) ==
    IF properties # << >> THEN create_property_pages(section_title, properties)
    ELSE << >>

generate_pdf(data) ==
    [for_lease |-> RenderList(data.for_lease_properties),
     for_sale  |-> RenderList(data.for_sale_properties),
     story     |-> create_cover_page
                   \o create_map_page
                   \o ListingSection("FOR LEASE", data.for_lease_properties)
                   \o ListingSection("FOR SALE", data.for_sale_properties)
                   \o create_next_steps_page]

(***************************************************************************)
(* Inputs of a request.                                                    *)
(***************************************************************************)
Flags == {"T", "F"}

Chars123MainSt == <<"1","2","3"," ","m","a","i","n"," ","s","t">>
CharsOranPark == <<"O","R","A","N"," "," ","p","a","r","k">>

\* A row of the table: category, inclusion flag and '$/m2' text as given,
\* the other cells with fixed contents.
Row(ty, fl, price) ==
    [type |-> ty, flag |-> fl, ppsqm |-> price,
     street_address |-> StrValue(Chars123MainSt),
     suburb |-> StrValue(CharsOranPark),
     lease_price |-> NumValue(1200, 0),
     last_listed_price |-> NaN]

Price1200 == <<"$","1",",","2","0","0">>
Price1100_50 == <<"1","1","0","0",".","5","0">>
PriceBad == <<"b","a","d">>
PriceBlank == << >>
PriceInf == <<"i","n","f">>

\* '$/m2' cells of the enumerated tables of the request pipeline.
PipelinePrices == { Price1200 }

Rows(prices) == {Row(ty, fl, p) : ty \in Range(Categories), fl \in Flags, p \in prices}

\* Three included For Lease rows followed by two included For Sale rows.
LeaseThenSaleTable ==
    << Row("For Lease", "T", Price1200), Row("For Lease", "T", Price1200),
       Row("For Lease", "T", Price1200), Row("For Sale", "T", Price1200),
       Row("For Sale", "T", Price1200) >>

\* Included and excluded rows of every category, interleaved; the flag of
\* the last row is a lower-case 't'.
InterleavedTable ==
    << Row("For Sale", "T", Price1200), Row("For Lease", "T", Price1200),
       Row("For Lease", "F", Price1200), Row("Sold", "T", PriceBad),
       Row("For Lease", "T", PriceBad), Row("For Sale", "F", Price1200),
       Row("Already Leased", "F", Price1200), Row("For Sale", "T", Price1200),
       Row("For Lease", "t", Price1200) >>

\* The four '$/m2' values "$1,200", "1100.50", "bad", "" on included rows.
AveragingTable ==
    << Row("For Lease", "T", Price1200), Row("For Lease", "T", Price1100_50),
       Row("For Lease", "T", PriceBad), Row("For Lease", "T", PriceBlank) >>

\* An included row whose '$/m2' cell reads "inf".
InfinitePriceTable == << Row("For Lease", "T", PriceInf) >>

ExampleTables == {LeaseThenSaleTable, InterleavedTable, AveragingTable, InfinitePriceTable}

PipelineTables == SeqsUpTo(Rows(PipelinePrices), MaxRows) \cup ExampleTables

Archives ==
    {[kind |-> k, media |-> << >>] : k \in {"nopath", "notzip", "nomedia"}}
    \cup {[kind |-> "media", media |-> m] : m \in SeqsUpTo(BOOLEAN, MaxImages)}

NoResult == [status |-> "none", missing |-> << >>]
NoDocument == [for_lease |-> << >>, for_sale |-> << >>, story |-> << >>]
NoValue == << >>
EmptyDisk == [path \in {} |-> ""]
NoRequests == << >>

(***************************************************************************)
(* The upload handler index() of app.py (generate_report() runs the same   *)
(* three stages): read the file, process_excel_data, generate_pdf.        *)
(***************************************************************************)
Init ==
    /\ header \in HeaderRows
    /\ table \in PipelineTables
    /\ archive \in Archives
    /\ pc = "start"
    /\ calls = << >>
    /\ result = NoResult
    /\ document = NoDocument
    /\ fnIn = NoValue
    /\ fnOut = NoValue
    /\ disk = EmptyDisk
    /\ reqs = NoRequests
    /\ clock = 0
    /\ initialization_complete = TRUE

\* pd.read_csv / pd.read_excel, then the df.empty check.
ReadFile ==
    /\ pc = "start"
    /\ pc' = IF Len(table) = 0 THEN "rejected" ELSE "read"
    /\ UNCHANGED <<initialization_complete, header, table, archive, calls, result, document, fnIn, fnOut, disk, reqs, clock>>

\* process_excel_data(df, filepath); an exception ends the request.
ProcessExcelData ==
    /\ pc = "read"
    /\ result' = process_excel_data(header, table, archive)
    /\ calls' = Append(calls, "process_excel_data")
    /\ pc' = IF result'.status = "ok" THEN "processed" ELSE "error"
    /\ UNCHANGED <<initialization_complete, header, table, archive, document, fnIn, fnOut, disk, reqs, clock>>

\* generate_pdf(processed_data, ...), then send_file.
GeneratePdf ==
    /\ pc = "processed"
    /\ document' = generate_pdf(result)
    /\ calls' = Append(calls, "generate_pdf")
    /\ pc' = "sent"
    /\ UNCHANGED <<initialization_complete, header, table, archive, result, fnIn, fnOut, disk, reqs, clock>>

Next == ReadFile \/ ProcessExcelData \/ GeneratePdf

Spec == Init /\ [][Next]_vars


(***************************************************************************)
(* The same handler on tables with up to MaxProps included rows of each    *)
(* of the two listed categories.                                           *)
(***************************************************************************)
\* n rows of category ty, all included.
IncludedRows(ty, n) == [i \in 1..n |-> Row(ty, "T", Price1200)]

\* Optionally an excluded row, then nl For Lease rows and ns For Sale rows;
\* with saleFirst the For Sale rows come first.
ComposeTable(lead, nl, ns, saleFirst) ==
    (IF lead THEN <<Row("For Sale", "F", Price1200)>> ELSE << >>)
    \o (IF saleFirst
        THEN IncludedRows("For Sale", ns) \o IncludedRows("For Lease", nl)
        ELSE IncludedRows("For Lease", nl) \o IncludedRows("For Sale", ns))

ComposeTables ==
    {ComposeTable(lead, nl, ns, sf) :
        lead \in BOOLEAN, nl \in 0..MaxProps, ns \in 0..MaxProps, sf \in BOOLEAN}

InitCompose ==
    /\ header = WellFormedHeader
    /\ table \in ComposeTables
    /\ archive \in {[kind |-> "nopath", media |-> << >>],
                    [kind |-> "media", media |-> <<TRUE>>]}
    /\ pc = "start"
    /\ calls = << >>
    /\ result = NoResult
    /\ document = NoDocument
    /\ fnIn = NoValue
    /\ fnOut = NoValue
    /\ disk = EmptyDisk
    /\ reqs = NoRequests
    /\ clock = 0
    /\ initialization_complete = TRUE

SpecCompose == InitCompose /\ [][Next]_vars


(***************************************************************************)
(* calculate_average_price_per_sqm on its own.                             *)
(***************************************************************************)
AvgPrices ==
    { <<"7">>, <<"2",".","5">>, <<"$","8">>, <<"1",",","0">>,
      PriceBad, PriceBlank, PriceInf }

AvgTypes == {"For Lease", "Sold"}

\* The four values of AveragingTable among rows that do not match.
AveragingTableMixed ==
    << Row("For Lease", "T", PriceBlank), Row("For Lease", "F", <<"7">>),
       Row("For Lease", "T", Price1100_50), Row("Sold", "T", <<"$","8">>),
       Row("For Lease", "T", PriceBad), Row("For Lease", "T", Price1200) >>

AvgTables ==
    SeqsUpTo({Row(ty, fl, p) : ty \in AvgTypes, fl \in Flags, p \in AvgPrices}, MaxAvgRows)
    \cup {AveragingTable, AveragingTableMixed}

InitAvg ==
    /\ header \in {WellFormedHeader, WithoutColumn(WellFormedHeader, "$/m2")}
    /\ table \in AvgTables
    /\ archive = [kind |-> "nopath", media |-> << >>]
    /\ pc = "average"
    /\ calls = << >>
    /\ result = NoResult
    /\ document = NoDocument
    /\ fnIn = NoValue
    /\ fnOut = NoValue
    /\ disk = EmptyDisk
    /\ reqs = NoRequests
    /\ clock = 0
    /\ initialization_complete = TRUE

CalculateAverage ==
    /\ pc = "average"
    /\ \E ty \in AvgTypes, fl \in Flags :
          /\ fnIn' = [property_type |-> ty, put_in_report |-> fl]
          /\ fnOut' = calculate_average_price_per_sqm(header, table, ty, fl)
    /\ pc' = "averaged"
    /\ UNCHANGED <<initialization_complete, header, table, archive, calls, result, document, disk, reqs, clock>>

NextAvg == CalculateAverage

SpecAvg == InitAvg /\ [][NextAvg]_vars

(***************************************************************************)
(* format_price_string on its own.                                         *)
(***************************************************************************)
PriceAlphabet == {"0", "1", "9", ".", ",", "$", "b"}

OffersAbove ==
    <<"O","f","f","e","r","s"," ","a","b","o","v","e"," ","$","5","0","0",",","0","0","0">>

PriceTexts ==
    SeqsUpTo(PriceAlphabet, MaxStrLen)
    \cup { OffersAbove, Price1200, Price1100_50,
           <<"1","2","0","0">>, <<"1","2","0","0",".","5">>,
           <<"1",",","2","3","4",".","8","9","1">>,
           <<"1","2",".","3",".","4">>, <<"0",".","0","0","1">> }

PriceNumbers ==
    { NumValue(1200, 0), NumValue(12005, 1), NumValue(0, 0), NumValue(12000, 1),
      NumValue(999, 0), NumValue(1000, 0), NumValue(1234567, 0), NumValue(1234567, 2),
      NumValue(1999, 3), NumValue(1001, 3), NumValue(999996, 3), NumValue(5, 2) }

PriceValues == {StrValue(t) : t \in PriceTexts} \cup PriceNumbers

InitPrice ==
    /\ header = WellFormedHeader
    /\ table = << >>
    /\ archive = [kind |-> "nopath", media |-> << >>]
    /\ pc = "format"
    /\ calls = << >>
    /\ result = NoResult
    /\ document = NoDocument
    /\ fnIn \in PriceValues
    /\ fnOut = NoValue
    /\ disk = EmptyDisk
    /\ reqs = NoRequests
    /\ clock = 0
    /\ initialization_complete = TRUE

FormatPrice ==
    /\ pc = "format"
    /\ fnOut' = format_price_string(fnIn)
    /\ pc' = "formatted"
    /\ UNCHANGED <<initialization_complete, header, table, archive, calls, result, document, fnIn, disk, reqs, clock>>

NextPrice == FormatPrice

SpecPrice == InitPrice /\ [][NextPrice]_vars


(***************************************************************************)
(* extract_property_data on its own: one row, one category.                *)
(***************************************************************************)
AddressAlphabet == {"a", "B", "1", " "}

AddressCells ==
    {StrValue(t) : t \in SeqsUpTo(AddressAlphabet, MaxAddrLen)}
    \cup { NaN, StrValue(Chars123MainSt), StrValue(CharsOranPark),
           StrValue(<<" ","4","\t","h","I","G","H"," ","\n","s","t"," ">>) }

SuburbCells == { StrValue(CharsOranPark), StrValue(<<"a"," ","b">>) }

PriceCells ==
    { NaN, StrValue(<< >>), StrValue(<<" ">>), StrValue(NotDisclosed),
      StrValue(OffersAbove), StrValue(<<"1","2","0","0">>),
      NumValue(1200, 0), NumValue(12005, 1) }

ExtractRow(street, sub, lease, listed) ==
    [type |-> "For Lease", flag |-> "T", ppsqm |-> Price1200,
     street_address |-> street, suburb |-> sub,
     lease_price |-> lease, last_listed_price |-> listed]

\* Rows that vary the address cells, and rows that vary the two price cells.
ExtractRows ==
    {ExtractRow(a, sub, NumValue(1200, 0), NaN) : a \in AddressCells, sub \in SuburbCells}
    \cup {ExtractRow(StrValue(Chars123MainSt), StrValue(CharsOranPark), l, p) :
             l \in PriceCells, p \in PriceCells}

InitExtract ==
    /\ header = WellFormedHeader
    /\ table = << >>
    /\ archive = [kind |-> "nopath", media |-> << >>]
    /\ pc = "extract"
    /\ calls = << >>
    /\ result = NoResult
    /\ document = NoDocument
    /\ fnIn \in [row : ExtractRows, property_type : {"For Lease", "For Sale"}]
    /\ fnOut = NoValue
    /\ disk = EmptyDisk
    /\ reqs = NoRequests
    /\ clock = 0
    /\ initialization_complete = TRUE

ExtractPropertyData ==
    /\ pc = "extract"
    /\ fnOut' = extract_property_data(1, fnIn.row, fnIn.property_type, None)
    /\ pc' = "extracted"
    /\ UNCHANGED <<initialization_complete, header, table, archive, calls, result, document, fnIn, disk, reqs, clock>>

NextExtract == ExtractPropertyData

SpecExtract == InitExtract /\ [][NextExtract]_vars


(***************************************************************************)
(* validate_headers on its own.  Here header is the header row as it is    *)
(* written in the file, a blank cell being "".  pandas names the columns   *)
(* from it: a blank cell becomes 'Unnamed: <index>', and a label that      *)
(* occurred c > 0 times in earlier columns gets the suffix '.c'.           *)
(***************************************************************************)
\* df.columns.tolist() of pd.read_csv / pd.read_excel(..., nrows=0)
ReadColumns(row) ==
    [p \in 1..Len(row) |->
        LET c == Cardinality({q \in 1..(p-1) : row[q] = row[p]})
        IN  IF row[p] = "" THEN "Unnamed: " \o ToString(p - 1)
            ELSE IF c = 0 THEN row[p]
            ELSE row[p] \o "." \o ToString(c)]

\* What the except branch of validate_headers returns.
ErrorReadingFile == [valid |-> FALSE, error |-> "Error reading file"]

\* The header row of a well-formed file.
WellFormedFileRow ==
    [p \in 1..HeaderWidth |->
        IF WellFormedHeader[p] = "Unnamed" THEN "" ELSE WellFormedHeader[p]]

\* The row with the cell at position p replaced by v.
SetCell(row, p, v) == [i \in 1..Len(row) |-> IF i = p THEN v ELSE row[i]]

\* Positions (1-based) of the columns validate_headers looks at.
CheckedPositions ==
    {column_letter_to_index(expected_headers[k][1]) + 1 : k \in 1..Len(expected_headers)}

\* Cell contents written over a cell of the well-formed row.
OtherLabels == {"Other", "", "Car", "type", "Busi's Comment"}

FileHeaderRows ==
    {WellFormedFileRow, Append(WellFormedFileRow, "Extra")}
    \cup {SetCell(WellFormedFileRow, p, v) : p \in 1..HeaderWidth, v \in OtherLabels}
    \cup {SubSeq(WellFormedFileRow, 1, n) : n \in 0..HeaderWidth}
    \cup {SetCell(SetCell(WellFormedFileRow, p, "Other"), q, "Other") :
             p \in CheckedPositions, q \in CheckedPositions}
    \cup {SubSeq(SetCell(WellFormedFileRow, p, "Other"), 1, n) :
             p \in CheckedPositions, n \in {20, 40, 54}}

InitValidate ==
    /\ header \in FileHeaderRows
    /\ table = << >>
    /\ archive = [kind |-> "nopath", media |-> << >>]
    /\ pc = "validate"
    /\ calls = << >>
    /\ result = NoResult
    /\ document = NoDocument
    /\ fnIn = NoValue
    /\ fnOut = NoValue
    /\ disk = EmptyDisk
    /\ reqs = NoRequests
    /\ clock = 0
    /\ initialization_complete = TRUE

\* validate_headers(file_path): read the header, check it; any exception
\* while reading gives the 'Error reading file' answer.
ValidateHeaders ==
    /\ pc = "validate"
    /\ \E readable \in BOOLEAN :
          /\ fnIn' = [readable |-> readable]
          /\ fnOut' = IF readable THEN validate_headers(ReadColumns(header))
                      ELSE ErrorReadingFile
    /\ pc' = "validated"
    /\ UNCHANGED <<initialization_complete, header, table, archive, calls, result, document, disk, reqs, clock>>

NextValidate == ValidateHeaders

SpecValidate == InitValidate /\ [][NextValidate]_vars


(***************************************************************************)
(* column_letter_to_index on its own, on two column-letter strings.        *)
(***************************************************************************)
SampleLetters == {"A", "B", "M", "Z"}

LetterStrings ==
    (SeqsUpTo(SampleLetters, MaxLetters) \ {<< >>})
    \cup {<<Letters[i]>> : i \in 1..26}
    \cup {expected_headers[k][1] : k \in 1..Len(expected_headers)}

InitLetters ==
    /\ header = WellFormedHeader
    /\ table = << >>
    /\ archive = [kind |-> "nopath", media |-> << >>]
    /\ pc = "letters"
    /\ calls = << >>
    /\ result = NoResult
    /\ document = NoDocument
    /\ fnIn \in LetterStrings \X LetterStrings
    /\ fnOut = NoValue
    /\ disk = EmptyDisk
    /\ reqs = NoRequests
    /\ clock = 0
    /\ initialization_complete = TRUE

ColumnLetterToIndex ==
    /\ pc = "letters"
    /\ fnOut' = <<column_letter_to_index(fnIn[1]), column_letter_to_index(fnIn[2])>>
    /\ pc' = "indexed"
    /\ UNCHANGED <<initialization_complete, header, table, archive, calls, result, document, fnIn, disk, reqs, clock>>

NextLetters == ColumnLetterToIndex

SpecLetters == InitLetters /\ [][NextLetters]_vars


(***************************************************************************)
(* extract_excel_images step by step, with the file system.  A path is a   *)
(* sequence of names; disk maps each existing path to what is stored       *)
(* there.  archive.kind "missing" is an excel_path that does not exist.    *)
(* fnOut holds the locals of the function.  An exception that the          *)
(* 'except Exception' clause does not catch (an interrupt) can arrive at   *)
(* any step of the try block.                                              *)
(***************************************************************************)
TempNames == {"tmpA", "tmpB"}

\* path is dir or lies under it.
IsUnder(dir, path) == Len(path) >= Len(dir) /\ SubSeq(path, 1, Len(dir)) = dir

\* The disk with the given paths written.
WithPaths(fs, paths, content) ==
    [q \in DOMAIN fs \cup paths |-> IF q \in paths THEN content ELSE fs[q]]

\* os.rmdir(dir): removes an empty directory only.
rmdir(fs, dir) ==
    IF \E q \in DOMAIN fs : q # dir /\ IsUnder(dir, q) THEN fs
    ELSE [q \in DOMAIN fs \ {dir} |-> fs[q]]

\* shutil.rmtree(dir): removes the directory and everything under it.
rmtree(fs, dir) == [q \in {r \in DOMAIN fs : ~IsUnder(dir, r)} |-> fs[q]]

\* The directory another run is working in.
OtherRunDisk == WithPaths(EmptyDisk, {<<"tmpA">>, <<"tmpA", "temp.zip">>}, "other")

ImageArchives ==
    {[kind |-> k, media |-> << >>] : k \in {"missing", "notzip", "nomedia"}}
    \cup {[kind |-> "media", media |-> m] : m \in SeqsUpTo(BOOLEAN, MaxImages)}

NoLocals == [temp_dir |-> << >>, image_dict |-> << >>, i |-> 0, raised |-> FALSE]

InitImages ==
    /\ header = WellFormedHeader
    /\ table = << >>
    /\ archive \in ImageArchives
    /\ pc = "exists"
    /\ calls = << >>
    /\ result = NoResult
    /\ document = NoDocument
    /\ fnIn = NoValue
    /\ fnOut = NoLocals
    /\ disk \in {EmptyDisk, OtherRunDisk}
    /\ reqs = NoRequests
    /\ clock = 0
    /\ initialization_complete = TRUE

\* if not os.path.exists(excel_path): return {}
CheckExists ==
    /\ pc = "exists"
    /\ pc' = IF archive.kind = "missing" THEN "returned" ELSE "mkdtemp"
    /\ UNCHANGED <<initialization_complete, header, table, archive, calls, result, document, fnIn, fnOut,
                   disk, reqs, clock>>

\* temp_dir = tempfile.mkdtemp(): a directory that did not exist.
MakeTempDir ==
    /\ pc = "mkdtemp"
    /\ \E name \in TempNames :
          /\ <<name>> \notin DOMAIN disk
          /\ disk' = WithPaths(disk, {<<name>>}, "dir")
          /\ fnOut' = [fnOut EXCEPT !.temp_dir = <<name>>]
    /\ pc' = "copy"
    /\ UNCHANGED <<initialization_complete, header, table, archive, calls, result, document, fnIn, reqs, clock>>

\* shutil.copy2, shutil.move, os.makedirs(extract_folder)
CopyToZip ==
    /\ pc = "copy"
    /\ \E interrupted \in BOOLEAN :
          IF interrupted
          THEN /\ fnOut' = [fnOut EXCEPT !.raised = TRUE]
               /\ pc' = "finally"
               /\ disk' = disk
          ELSE /\ disk' = WithPaths(disk, {fnOut.temp_dir \o <<"temp.zip">>,
                                           fnOut.temp_dir \o <<"extracted">>}, "copy")
               /\ pc' = "unzip"
               /\ fnOut' = fnOut
    /\ UNCHANGED <<initialization_complete, header, table, archive, calls, result, document, fnIn, reqs, clock>>

\* The paths zip_ref.extractall writes for an archive with n media files.
ExtractedPaths(temp_dir, arch) ==
    IF arch.kind # "media" THEN {temp_dir \o <<"extracted", "xl">>}
    ELSE {temp_dir \o <<"extracted", "xl">>, temp_dir \o <<"extracted", "xl", "media">>}
         \cup {temp_dir \o <<"extracted", "xl", "media", ToString(k)>> :
                  k \in 1..Len(arch.media)}

\* zipfile.ZipFile(temp_zip).extractall(extract_folder), then the look for
\* xl/media; a file that is no archive raises, which 'except Exception' logs.
ExtractAll ==
    /\ pc = "unzip"
    /\ \E interrupted \in BOOLEAN :
          IF interrupted
          THEN /\ fnOut' = [fnOut EXCEPT !.raised = TRUE]
               /\ pc' = "finally"
               /\ disk' = disk
          ELSE IF archive.kind = "notzip"
          THEN /\ fnOut' = fnOut
               /\ pc' = "finally"
               /\ disk' = disk
          ELSE /\ disk' = WithPaths(disk, ExtractedPaths(fnOut.temp_dir, archive), "extracted")
               /\ fnOut' = [fnOut EXCEPT !.i = 1]
               /\ pc' = IF archive.kind = "media" /\ Len(archive.media) > 0
                        THEN "convert" ELSE "finally"
    /\ UNCHANGED <<initialization_complete, header, table, archive, calls, result, document, fnIn, reqs, clock>>

\* One turn of the loop over image_files: a file that cannot be read is
\* logged and skipped.
ConvertImage ==
    /\ pc = "convert"
    /\ \E interrupted \in BOOLEAN :
          IF interrupted
          THEN /\ fnOut' = [fnOut EXCEPT !.raised = TRUE]
               /\ pc' = "finally"
          ELSE /\ fnOut' = [fnOut EXCEPT
                              !.image_dict =
                                  IF archive.media[fnOut.i]
                                  THEN (fnOut.i :> [data_url |-> DataUrl(fnOut.i)]) @@ @
                                  ELSE @,
                              !.i = @ + 1]
               /\ pc' = IF fnOut.i < Len(archive.media) THEN "convert" ELSE "finally"
    /\ UNCHANGED <<initialization_complete, header, table, archive, calls, result, document, fnIn,
                   disk, reqs, clock>>

\* finally: shutil.rmtree(temp_dir); then return image_dict, or the
\* exception goes on to the caller.
Finally ==
    /\ pc = "finally"
    /\ disk' = rmtree(disk, fnOut.temp_dir)
    /\ pc' = "returned"
    /\ UNCHANGED <<initialization_complete, header, table, archive, calls, result, document, fnIn, fnOut,
                   reqs, clock>>

NextImages == CheckExists \/ MakeTempDir \/ CopyToZip \/ ExtractAll \/ ConvertImage \/ Finally

SpecImages == InitImages /\ [][NextImages]_vars


(***************************************************************************)
(* Several POST requests to index() handled at the same time (the server   *)
(* runs one thread per request).  Each request r uploads a file of its own *)
(* contents under a name the client chose; what a path of the disk holds   *)
(* is recorded as the id of the request whose data it is.                  *)
(***************************************************************************)
UploadNames == {"a.xlsx", "b.xlsx"}
BusinessTypes == {"busivet", "busihealth"}

Nobody == 0

\* os.path.join(app.config['UPLOAD_FOLDER'], secure_filename(file.filename))
UploadPath(filename) == <<"uploads", filename>>

\* os.path.join(OUTPUT_DIR, f"{business_type.lower()}_report_{timestamp}.pdf"),
\* the timestamp being datetime.now() to the second.
OutputPath(business_type, now) ==
    <<"output", business_type \o "_report_" \o ToString(now) \o ".pdf">>

NoPath == << >>

NewRequest(filename, business_type) ==
    [pc |-> "save", filename |-> filename, business_type |-> business_type,
     filepath |-> NoPath, df |-> Nobody, images |-> Nobody,
     pdf_path |-> NoPath, sent |-> Nobody]

InitRequests ==
    /\ header = WellFormedHeader
    /\ table = << >>
    /\ archive = [kind |-> "nopath", media |-> << >>]
    /\ pc = "serving"
    /\ calls = << >>
    /\ result = NoResult
    /\ document = NoDocument
    /\ fnIn = NoValue
    /\ fnOut = NoValue
    /\ disk = EmptyDisk
    /\ reqs \in [1..NumRequests ->
                    {NewRequest(f, b) : f \in UploadNames, b \in BusinessTypes}]
    /\ clock = 0
    /\ initialization_complete = TRUE

\* file.save(filepath)
SaveUpload(r) ==
    /\ reqs[r].pc = "save"
    /\ disk' = WithPaths(disk, {UploadPath(reqs[r].filename)}, r)
    /\ reqs' = [reqs EXCEPT ![r].filepath = UploadPath(reqs[r].filename),
                            ![r].pc = "read"]
    /\ UNCHANGED <<initialization_complete, header, table, archive, pc, calls, result, document, fnIn, fnOut, clock>>

\* df = pd.read_csv(filepath) / pd.read_excel(filepath)
ReadUpload(r) ==
    /\ reqs[r].pc = "read"
    /\ reqs' = [reqs EXCEPT ![r].df = disk[reqs[r].filepath], ![r].pc = "process"]
    /\ UNCHANGED <<initialization_complete, header, table, archive, pc, calls, result, document, fnIn, fnOut,
                   disk, clock>>

\* process_excel_data(df, filepath): the images are read from filepath again.
ProcessUpload(r) ==
    /\ reqs[r].pc = "process"
    /\ reqs' = [reqs EXCEPT ![r].images = disk[reqs[r].filepath], ![r].pc = "generate"]
    /\ UNCHANGED <<initialization_complete, header, table, archive, pc, calls, result, document, fnIn, fnOut,
                   disk, clock>>

\* generate_pdf(...): the output path is made from the business type and
\* the time, and doc.build writes the document there.
WritePdf(r) ==
    /\ reqs[r].pc = "generate"
    /\ disk' = WithPaths(disk, {OutputPath(reqs[r].business_type, clock)}, reqs[r].df)
    /\ reqs' = [reqs EXCEPT ![r].pdf_path = OutputPath(reqs[r].business_type, clock),
                            ![r].pc = "send"]
    /\ UNCHANGED <<initialization_complete, header, table, archive, pc, calls, result, document, fnIn, fnOut, clock>>

\* send_file(pdf_path, ...)
SendFile(r) ==
    /\ reqs[r].pc = "send"
    /\ reqs' = [reqs EXCEPT ![r].sent = disk[reqs[r].pdf_path], ![r].pc = "done"]
    /\ UNCHANGED <<initialization_complete, header, table, archive, pc, calls, result, document, fnIn, fnOut,
                   disk, clock>>

\* A second passes.
Tick ==
    /\ clock < MaxClock
    /\ clock' = clock + 1
    /\ UNCHANGED <<initialization_complete, header, table, archive, pc, calls, result, document, fnIn, fnOut,
                   disk, reqs>>

NextRequests ==
    \/ \E r \in 1..NumRequests : SaveUpload(r)
    \/ \E r \in 1..NumRequests : ReadUpload(r)
    \/ \E r \in 1..NumRequests : ProcessUpload(r)
    \/ \E r \in 1..NumRequests : WritePdf(r)
    \/ \E r \in 1..NumRequests : SendFile(r)
    \/ Tick

SpecRequests == InitRequests /\ [][NextRequests]_vars


(***************************************************************************)
(* Properties of the request pipeline.                                     *)
(***************************************************************************)
Processed == "process_excel_data" \in Range(calls)
Returned == result.status = "ok"

\* No '$/m2' cell of the table reads as an infinity.
PricesFinite == \A i \in 1..Len(table) : PriceOf(table[i]).kind # "inf"

\* lst holds exactly the rows of category ty flagged 'T', once each, in row order.
IsSelection(lst, ty) ==
    /\ \A j \in 1..Len(lst) :
          /\ lst[j].row \in 1..Len(table)
          /\ table[lst[j].row].type = ty
          /\ table[lst[j].row].flag = "T"
    /\ \A j \in 1..(Len(lst) - 1) : lst[j].row < lst[j+1].row
    /\ \A i \in 1..Len(table) :
          (table[i].type = ty /\ table[i].flag = "T")
              => \E j \in 1..Len(lst) : lst[j].row = i

\* C1: the for_lease_properties list returned by process_excel_data holds
\* exactly the rows with Type 'For Lease' and inclusion flag 'T', one entry per
\* row, in source row order, and for_sale_properties the same for 'For Sale';
\* a row whose flag is not 'T' yields no entry.
C1_SelectedRowsInOrder ==
    Returned =>
        /\ IsSelection(result.for_lease_properties, "For Lease")
        /\ IsSelection(result.for_sale_properties, "For Sale")

C1_Witness ==
    /\ Returned
    /\ Len(result.for_lease_properties) >= 2
    /\ Len(result.for_sale_properties) >= 2
    /\ \E i \in 1..Len(table) : table[i].type = "For Lease" /\ table[i].flag = "F"
    /\ \E i \in 1..Len(table) : table[i].type = "For Sale" /\ table[i].flag = "F"

StatisticsOf(r) ==
    {r.statistics.for_lease, r.statistics.already_leased,
     r.statistics.for_sale, r.statistics.sold}

\* C2: for each of the four categories the statistics returned by
\* process_excel_data satisfy criteria <= total.
C2_CriteriaAtMostTotal ==
    Returned => \A st \in StatisticsOf(result) : st.criteria <= st.total

C2_Witness ==
    /\ Returned
    /\ result.statistics.for_lease.criteria = 2
    /\ result.statistics.for_lease.total = 4
    /\ result.statistics.sold.criteria = 1
    /\ result.statistics.already_leased.total = 1

\* The images are keyed 1..n.
KeyedFromOne ==
    DOMAIN extract_excel_images(archive)
        = 1..Cardinality(DOMAIN extract_excel_images(archive))

\* C3: a media file that fails to be read never aborts the report: whatever
\* subset of the media files fails, process_excel_data returns a result.
C3_CorruptImageNeverAborts ==
    (Processed /\ archive.kind = "media" /\ MissingColumns(header) = << >> /\ PricesFinite)
        => Returned

\* C4: a table that lacks required columns makes process_excel_data fail with
\* the missing-column error that lists every missing column, for any missing
\* column and whether or not the source file holds images.
C4_MissingColumnError ==
    (Processed /\ MissingColumns(header) # << >> /\ KeyedFromOne /\ PricesFinite) =>
        /\ result.status = "ValueError"
        /\ \A c \in 1..Len(required_columns) :
              required_columns[c] \in Range(result.missing)
                  <=> ~HasColumn(header, required_columns[c])

\* The entries of the result in the order images are handed out.
Entries == result.for_lease_properties \o result.for_sale_properties

\* C5: with n extracted images keyed 1..n, image k goes to the k-th row of
\* the sequence (included For Lease rows in source order, then included For
\* Sale rows in source order); the rows after the n-th get no image, and no
\* error is raised.
C5_PositionalImages ==
    (Processed /\ archive.kind = "media" /\ KeyedFromOne
       /\ MissingColumns(header) = << >> /\ PricesFinite) =>
        /\ Returned
        /\ \A k \in 1..Len(Entries) :
              Entries[k].image_data =
                  IF k <= Cardinality(DOMAIN extract_excel_images(archive))
                  THEN DataUrl(k) ELSE None

C5_Witness ==
    /\ Returned
    /\ table = LeaseThenSaleTable
    /\ archive = [kind |-> "media", media |-> <<TRUE, TRUE>>]
    /\ result.for_lease_properties[1].image_data = DataUrl(1)
    /\ result.for_lease_properties[2].image_data = DataUrl(2)
    /\ result.for_lease_properties[3].image_data = None
    /\ result.for_sale_properties[1].image_data = None
    /\ result.for_sale_properties[2].image_data = None

\* What the composer is to show for an entry of the result.
ImageOrPlaceholder(property_data) ==
    IF property_data.image_data # None THEN property_data.image_data ELSE Placeholder

\* C6: a property to which the normalizer associated an image is rendered
\* with that image, and the placeholder is rendered exactly for the
\* properties without an associated image.
C6_AssociatedImageRendered ==
    pc = "sent" =>
        /\ \A j \in 1..Len(document.for_lease) :
              document.for_lease[j].image
                  = ImageOrPlaceholder(result.for_lease_properties[j])
        /\ \A j \in 1..Len(document.for_sale) :
              document.for_sale[j].image
                  = ImageOrPlaceholder(result.for_sale_properties[j])

\* C7: the schema validator runs before the normalizer and the composer: when
\* the header row violates the positional contract, neither
\* process_excel_data nor generate_pdf is executed.
C7_ValidatorFirst ==
    ~validate_headers(header).valid => calls = << >>


(***************************************************************************)
(* Properties of calculate_average_price_per_sqm.                          *)
(***************************************************************************)
Abs(x) == IF x < 0 THEN -x ELSE x

Averaged == pc = "averaged"

\* The rows that match the category and the flag asked for.
AvgMatching == {i \in 1..Len(table) :
                   /\ table[i].type = fnIn.property_type
                   /\ table[i].flag = fnIn.put_in_report}

\* The '$/m2' text of row i without '$' and ','.
Stripped(i) == Remove(Remove(table[i].ppsqm, "$"), ",")

\* The matching rows whose stripped text is a decimal number.
AvgParseable ==
    IF HasColumn(header, "$/m2")
    THEN {i \in AvgMatching : IsUnsignedDecimal(Unsigned(Stripped(i)))}
    ELSE {}

\* The value of row i in hundredths (no text of the tables has more than
\* two fraction digits).
InHundredths(i) ==
    SignOf(Stripped(i)) * UnsignedDecimal(Unsigned(Stripped(i))).num
        * Pow10(2 - UnsignedDecimal(Unsigned(Stripped(i))).scale)

AvgTotal ==
    LET sum[k \in 0..Len(table)] ==
            IF k = 0 THEN 0
            ELSE IF k \in AvgParseable THEN sum[k-1] + InHundredths(k) ELSE sum[k-1]
    IN  sum[Len(table)]

\* v is an integer nearest to AvgTotal / (100 * number of parseable values).
NearestToMean(v) ==
    2 * Abs(v * 100 * Cardinality(AvgParseable) - AvgTotal)
        <= 100 * Cardinality(AvgParseable)

\* C8: for every table, category and flag, calculate_average_price_per_sqm
\* returns the mean of exactly the parseable '$/m2' values of the matching
\* rows (after stripping '$' and ','), rounded to the nearest integer;
\* unparseable and blank values are left out, and the result is 0 when no
\* row matches or no value parses.
C8_MeanOfParseableValues ==
    Averaged =>
        /\ fnOut.raised = None
        /\ IF AvgParseable = {} THEN fnOut.value = 0 ELSE NearestToMean(fnOut.value)

\* The same for the tables without an infinite '$/m2' value.
AverageOfFiniteValues ==
    (Averaged /\ PricesFinite) =>
        /\ fnOut.raised = None
        /\ IF AvgParseable = {} THEN fnOut.value = 0 ELSE NearestToMean(fnOut.value)

\* The matching rows carry exactly the values "$1,200", "1100.50", "bad", "".
FourValuesMatch ==
    /\ Averaged
    /\ HasColumn(header, "$/m2")
    /\ Cardinality(AvgMatching) = 4
    /\ {table[i].ppsqm : i \in AvgMatching}
           = {Price1200, Price1100_50, PriceBad, PriceBlank}

\* C9 as stated: on the values "$1,200", "1100.50", "bad", "" of matching
\* rows the two unparseable entries are left out and the result is 1151.
C9_AverageIs1151 ==
    FourValuesMatch => (fnOut.raised = None /\ fnOut.value = 1151)

\* C9 as amended: on the values "$1,200", "1100.50", "bad", "" of matching
\* rows the two unparseable entries are left out and the result is
\* round((1200 + 1100.50) / 2) = round(1150.25) = 1150.
C9_AverageIs1150 ==
    FourValuesMatch => (fnOut.raised = None /\ fnOut.value = 1150)

C9_Witness ==
    /\ FourValuesMatch
    /\ table = AveragingTableMixed
    /\ AvgParseable = {3, 6}
    /\ fnOut.value = 1150

(***************************************************************************)
(* Properties of format_price_string.                                      *)
(***************************************************************************)
Formatted == pc = "formatted"

\* A text made only of digits, commas and decimal points.
OnlyDigitsCommasPoints(t) == \A i \in 1..Len(t) : t[i] \in Digits \cup {",", "."}

\* The text parses as a number once its commas are removed.
ParsesAsNumber(t) == IsUnsignedDecimal(Remove(t, ","))

\* The value [num, scale] the input stands for.
InputNumber ==
    IF fnIn.kind = "num" THEN [num |-> fnIn.num, scale |-> fnIn.scale]
    ELSE UnsignedDecimal(Remove(fnIn.text, ","))

\* The input is formatted as a number (and not passed through).
FormattedAsNumber ==
    \/ fnIn.kind = "num"
    \/ fnIn.kind = "str" /\ OnlyDigitsCommasPoints(fnIn.text) /\ ParsesAsNumber(fnIn.text)

\* Digits in groups of three from the right, separated by commas, with no
\* leading zero or comma.
WellGrouped(t) ==
    /\ Len(t) >= 1
    /\ \A i \in 1..Len(t) :
          IF (Len(t) - i + 1) % 4 = 0 THEN t[i] = "," ELSE t[i] \in Digits
    /\ t[1] # ","
    /\ (Len(t) > 1 => t[1] # "0")

\* out is '$', a comma-grouped integer and nothing else, equal to the value.
IsWholeFormat(out, v) ==
    /\ Len(out) >= 2
    /\ out[1] = "$"
    /\ WellGrouped(Tail(out))
    /\ DigitsVal(Remove(Tail(out), ",")) * Pow10(v.scale) = v.num

\* out is '$', a comma-grouped integer, a point and exactly two digits, the
\* hundredths nearest to the value.
IsDecimalFormat(out, v) ==
    /\ Len(out) >= 5
    /\ out[1] = "$"
    /\ out[Len(out) - 2] = "."
    /\ out[Len(out) - 1] \in Digits /\ out[Len(out)] \in Digits
    /\ WellGrouped(SubSeq(out, 2, Len(out) - 3))
    /\ LET h == DigitsVal(Remove(SubSeq(out, 2, Len(out) - 3), ",")) * 100
                  + DigitsVal(SubSeq(out, Len(out) - 1, Len(out)))
       IN  2 * Abs(h * Pow10(v.scale) - v.num * 100) <= Pow10(v.scale)

\* C10: a number, or a text made only of digits, commas and decimal points,
\* becomes '$' + the comma-grouped integer when the parsed value is whole and
\* '$' + the comma-grouped number with exactly two decimals otherwise
\* (1200 -> '$1,200', 1200.5 -> '$1,200.50'); every other text, and every text
\* that does not parse, is returned unchanged.
C10_PriceFormat ==
    Formatted =>
        /\ FormattedAsNumber =>
              IF InputNumber.num % Pow10(InputNumber.scale) = 0
              THEN IsWholeFormat(fnOut, InputNumber)
              ELSE IsDecimalFormat(fnOut, InputNumber)
        /\ ~FormattedAsNumber => fnOut = fnIn.text
        /\ fnIn = NumValue(1200, 0) => fnOut = <<"$","1",",","2","0","0">>
        /\ fnIn = NumValue(12005, 1) => fnOut = <<"$","1",",","2","0","0",".","5","0">>
        /\ fnIn = StrValue(OffersAbove) => fnOut = OffersAbove

C10_Witness ==
    /\ Formatted
    /\ fnIn = StrValue(<<"1",",","2","3","4",".","8","9","1">>)
    /\ fnOut = <<"$","1",",","2","3","4",".","8","9">>

(***************************************************************************)
(* Properties of extract_property_data.                                    *)
(***************************************************************************)
Extracted == pc = "extracted"

\* The price cell of the row's own category.
SourcePrice ==
    IF fnIn.property_type = "For Lease" THEN fnIn.row.lease_price
    ELSE fnIn.row.last_listed_price

\* The cell has no value, or is a text with nothing but whitespace in it.
AbsentOrBlank(v) ==
    \/ v.kind = "nan"
    \/ v.kind = "str" /\ \A i \in 1..Len(v.text) : v.text[i] \in Whitespace

\* C11: the display price of a selected row is taken from the total lease
\* price cell of a For Lease row and from the last listed price cell of a
\* For Sale row, formatted by format_price_string; it is 'Not Disclosed'
\* exactly when that cell is absent or blank, and the price cell of the
\* other category has no influence.
C11_DisplayPriceByCategory ==
    Extracted =>
        /\ (fnOut.price = NotDisclosed) <=> AbsentOrBlank(SourcePrice)
        /\ ~AbsentOrBlank(SourcePrice) => fnOut.price = format_price_string(SourcePrice)

\* The same with only the missing and the empty cell taken as blank, and
\* 'Not Disclosed' also shown for a cell that reads 'Not Disclosed'.
DisplayPriceOfNonEmptyCell ==
    Extracted =>
        IF SourcePrice.kind = "nan" \/ SourcePrice = StrValue(<< >>)
        THEN fnOut.price = NotDisclosed
        ELSE fnOut.price = format_price_string(SourcePrice)

\* The text without its leading and trailing whitespace, every other run
\* of whitespace replaced by one space.
Squeezed(s) ==
    LET kept(k) ==
            \/ s[k] \notin Whitespace
            \/ /\ k > 1 /\ s[k-1] \notin Whitespace
               /\ \E m \in (k+1)..Len(s) : s[m] \notin Whitespace
        keep[k \in 0..Len(s)] ==
            IF k = 0 THEN << >>
            ELSE IF kept(k)
                 THEN Append(keep[k-1], IF s[k] \in Whitespace THEN " " ELSE s[k])
                 ELSE keep[k-1]
    IN  keep[Len(s)]

\* Every character after a space, and the first one, in upper case; every
\* other character in lower case.
Cased(t) ==
    [i \in 1..Len(t) |->
        IF i = 1 \/ t[i-1] = " " THEN UpperChar(LowerChar(t[i])) ELSE LowerChar(t[i])]

\* No whitespace but single spaces between two other characters.
SingleSpaced(t) ==
    /\ \A i \in 1..Len(t) : t[i] \in Whitespace => t[i] = " "
    /\ t # << >> => (t[1] # " " /\ t[Len(t)] # " ")
    /\ \A i \in 1..(Len(t) - 1) : ~(t[i] = " " /\ t[i+1] = " ")

IsDisplayForm(out, cell) == out = Cased(Squeezed(Str(cell))) /\ SingleSpaced(out)

\* C12: the display form of a street address and of a suburb is the text
\* split on whitespace, each token capitalized, rejoined with single spaces
\* ('123 main st' -> '123 Main St'); it has no leading, trailing or
\* repeated spaces.
C12_TitleCasedAddress ==
    Extracted =>
        /\ IsDisplayForm(fnOut.street_address, fnIn.row.street_address)
        /\ IsDisplayForm(fnOut.suburb_formatted, fnIn.row.suburb)
        /\ fnIn.row.street_address = StrValue(Chars123MainSt)
              => fnOut.street_address = <<"1","2","3"," ","M","a","i","n"," ","S","t">>

C12_Witness ==
    /\ Extracted
    /\ fnIn.row.street_address = StrValue(<<" ","4","\t","h","I","G","H"," ","\n","s","t"," ">>)
    /\ fnOut.street_address = <<"4"," ","H","i","g","h"," ","S","t">>
    /\ fnIn.row.suburb = StrValue(CharsOranPark)
    /\ fnOut.suburb_formatted = <<"O","r","a","n"," ","P","a","r","k">>

(***************************************************************************)
(* Properties of validate_headers.                                         *)
(***************************************************************************)
Validated == pc = "validated" /\ fnIn.readable

\* The 16 expected labels with the 1-based position of their column, in
\* ascending order of position (A = 1, ..., Z = 26, AA = 27, ..., BF = 58).
ExpectedAt ==
    << [letter |-> <<"A">>, pos |-> 1, label |-> "Type"],
       [letter |-> <<"B">>, pos |-> 2, label |-> "Property Photo"],
       [letter |-> <<"C">>, pos |-> 3, label |-> "Street Address"],
       [letter |-> <<"D">>, pos |-> 4, label |-> "Suburb"],
       [letter |-> <<"E">>, pos |-> 5, label |-> "State"],
       [letter |-> <<"F">>, pos |-> 6, label |-> "Postcode"],
       [letter |-> <<"G">>, pos |-> 7, label |-> "Site Zoning"],
       [letter |-> <<"H">>, pos |-> 8, label |-> "Property Type"],
       [letter |-> <<"K">>, pos |-> 11, label |-> "Car"],
       [letter |-> <<"N">>, pos |-> 14, label |-> "Floor Size (m2)"],
       [letter |-> <<"A","L">>, pos |-> 38, label |-> "Last Listed Price (Sold/For Sale)"],
       [letter |-> <<"A","T">>, pos |-> 46, label |-> "Total Lease Price (Base + Outgoings)"],
       [letter |-> <<"A","Z">>, pos |-> 52, label |-> "Allowable Use in Zone (T/F)"],
       [letter |-> <<"B","A">>, pos |-> 53, label |-> "$/m2"],
       [letter |-> <<"B","D">>, pos |-> 56, label |-> "PUT IN REPORT (T/F)"],
       [letter |-> <<"B","F">>, pos |-> 58, label |-> "Busi's Comment"] >>

\* The cell of row at the k-th expected position exists and is the label.
MatchesAt(row, k) ==
    /\ ExpectedAt[k].pos <= Len(row)
    /\ row[ExpectedAt[k].pos] = ExpectedAt[k].label

\* C13: validate_headers returns valid = true if and only if, for each of
\* the 16 expected (column letter, label) pairs, the header of the file at
\* that column exists and equals the label exactly; the header text at any
\* other position is ignored.
C13_ValidIffHeaderMatches ==
    Validated => (fnOut.valid <=> \A k \in 1..Len(ExpectedAt) : MatchesAt(header, k))

\* The same for the column names as pandas reads them from the header.
ValidIffColumnNamesMatch ==
    Validated =>
        (fnOut.valid <=> \A k \in 1..Len(ExpectedAt) : MatchesAt(ReadColumns(header), k))

\* C14: validate_headers fails fast: the positions are checked in the order
\* of the mapping (A, B, ..., BF) and the error names the first position in
\* that order whose column is missing or named otherwise; no later position
\* is reported.
C14_FirstViolationReported ==
    (Validated /\ ~fnOut.valid) =>
        \E k \in 1..Len(ExpectedAt) :
            /\ ~MatchesAt(ReadColumns(header), k)
            /\ \A j \in 1..(k-1) : MatchesAt(ReadColumns(header), j)
            /\ fnOut.error = ExpectedAt[k].letter

C14_Witness ==
    /\ Validated
    /\ header = SetCell(SetCell(WellFormedFileRow, 4, "Other"), 53, "Other")
    /\ fnOut = [valid |-> FALSE, error |-> <<"D">>]

(***************************************************************************)
(* Properties of column_letter_to_index.                                   *)
(***************************************************************************)
Indexed == pc = "indexed"

\* The string without its last letter.
Front(w) == SubSeq(w, 1, Len(w) - 1)


\* C15: column_letter_to_index maps a column-letter string to its zero-based
\* bijective base-26 index: 'A' -> 0, 'Z' -> 25, 'AA' -> 26, and
\* index(s + c) = (index(s) + 1) * 26 + (c - 'A'); distinct letter strings
\* have distinct indices.
C15_BijectiveBase26 ==
    Indexed =>
        /\ fnIn[1] = <<"A">> => fnOut[1] = 0
        /\ fnIn[1] = <<"Z">> => fnOut[1] = 25
        /\ fnIn[1] = <<"A","A">> => fnOut[1] = 26
        /\ Len(fnIn[1]) >= 2 =>
              fnOut[1] = (column_letter_to_index(Front(fnIn[1])) + 1) * 26
                             + LetterOffset(fnIn[1][Len(fnIn[1])])
        /\ Len(fnIn[1]) = 1 => fnOut[1] = LetterOffset(fnIn[1][1])
        /\ fnIn[1] # fnIn[2] => fnOut[1] # fnOut[2]

C15_Witness ==
    /\ Indexed
    /\ fnIn = << <<"A","A">>, <<"Z">> >>
    /\ fnOut = <<26, 25>>

(***************************************************************************)
(* Properties of the composed document.                                    *)
(***************************************************************************)
Sent == pc = "sent"

\* The story cut at its PageBreak elements.
PagesOf(story) ==
    LET scan[k \in 0..Len(story)] ==
            IF k = 0 THEN [pages |-> << >>, page |-> << >>]
            ELSE LET before == scan[k-1]
                 IN  IF story[k].kind = "break"
                     THEN [pages |-> Append(before.pages, before.page), page |-> << >>]
                     ELSE [pages |-> before.pages, page |-> Append(before.page, story[k])]
        last == scan[Len(story)]
    IN  Append(last.pages, last.page)

\* The pages of the listing section with the given title, in story order.
ListingPages(section_title) ==
    SelectSeq(PagesOf(document.story),
              LAMBDA pg : pg # << >> /\ pg[1].kind = "header" /\ pg[1].section = section_title)

\* The source rows of the properties on a page, in page order.
RowsOn(pg) ==
    LET props == SelectSeq(pg, LAMBDA e : e.kind = "property")
    IN  [j \in 1..Len(props) |-> props[j].row]

\* The source rows of a list of entries.
RowsOf(lst) == [j \in 1..Len(lst) |-> lst[j].row]

\* The pages hold the n entries of lst in order, three on each page but the
\* last and one to three on the last, on ceil(n / 3) pages.
PaginatedByThree(pages, lst) ==
    /\ Len(pages) = (Len(lst) + 2) \div 3
    /\ \A c \in 1..(Len(pages) - 1) : Len(RowsOn(pages[c])) = 3
    /\ Len(pages) > 0 => Len(RowsOn(pages[Len(pages)])) \in 1..3
    /\ Concat([c \in 1..Len(pages) |-> RowsOn(pages[c])]) = RowsOf(lst)

\* C16: a list of n properties of one category is split into ceil(n / 3)
\* pages in list order, each page but the last with exactly 3 properties and
\* the last with 1 to 3 (7 properties: 3, 3, 1); no property is dropped,
\* duplicated or reordered.
C16_ThreePerPage ==
    Sent =>
        /\ PaginatedByThree(ListingPages("FOR LEASE"), result.for_lease_properties)
        /\ PaginatedByThree(ListingPages("FOR SALE"), result.for_sale_properties)

C16_Witness ==
    /\ Sent
    /\ Len(result.for_lease_properties) = 7
    /\ [c \in 1..Len(ListingPages("FOR LEASE")) |->
           Len(RowsOn(ListingPages("FOR LEASE")[c]))] = <<3, 3, 1>>
    /\ Len(result.for_sale_properties) = 4

\* The number of elements of the given kind on a page.
CountOn(pg, kind) == Cardinality({i \in 1..Len(pg) : pg[i].kind = kind})

\* Every divider of the page stands between two properties.
DividersBetweenProperties(pg) ==
    \A i \in 1..Len(pg) :
        pg[i].kind = "divider" =>
            /\ i > 1 /\ pg[i-1].kind = "property"
            /\ i < Len(pg) /\ pg[i+1].kind = "property"

\* Two consecutive properties of the page have a divider between them.
NoAdjacentProperties(pg) ==
    \A i \in 1..(Len(pg) - 1) : ~(pg[i].kind = "property" /\ pg[i+1].kind = "property")

IsListingPage(pg) == pg # << >> /\ pg[1].kind = "header"

\* C17: on every listing page a divider is emitted between each pair of
\* consecutive properties and never after the last property of the page: a
\* page with k properties has exactly k - 1 dividers.
C17_DividersBetween ==
    Sent =>
        \A p \in 1..Len(PagesOf(document.story)) :
            LET pg == PagesOf(document.story)[p]
            IN  IsListingPage(pg) =>
                    /\ CountOn(pg, "divider") = CountOn(pg, "property") - 1
                    /\ DividersBetweenProperties(pg)
                    /\ NoAdjacentProperties(pg)
                    /\ pg[Len(pg)].kind = "property"

C17_Witness ==
    /\ Sent
    /\ \E p \in 1..Len(PagesOf(document.story)) :
          /\ CountOn(PagesOf(document.story)[p], "property") = 3
          /\ CountOn(PagesOf(document.story)[p], "divider") = 2
    /\ \E p \in 1..Len(PagesOf(document.story)) :
          /\ CountOn(PagesOf(document.story)[p], "property") = 1
          /\ CountOn(PagesOf(document.story)[p], "divider") = 0

\* What a page is: the kind of its first element, the section title for a
\* listing page, "blank" for a page without elements.
PageKind(pg) ==
    IF pg = << >> THEN "blank"
    ELSE IF pg[1].kind = "header" THEN pg[1].section
    ELSE pg[1].kind

PageKinds == [p \in 1..Len(PagesOf(document.story)) |-> PageKind(PagesOf(document.story)[p])]

\* n copies of x.
Repeat(x, n) == [i \in 1..n |-> x]

\* C18: the document is, in this order, the cover page, the statistics page,
\* all FOR LEASE listing pages, all FOR SALE listing pages and the closing
\* next-steps page; a listing section with an empty list is left out
\* entirely; cover, statistics and closing page appear exactly once.
C18_SectionOrder ==
    Sent =>
        \E a \in 0..Len(document.story), b \in 0..Len(document.story) :
            /\ PageKinds = <<"cover", "map">> \o Repeat("FOR LEASE", a)
                               \o Repeat("FOR SALE", b) \o <<"next_steps">>
            /\ a = 0 <=> result.for_lease_properties = << >>
            /\ b = 0 <=> result.for_sale_properties = << >>

C18_Witness ==
    /\ Sent
    /\ table = ComposeTable(TRUE, 0, 4, TRUE)
    /\ PageKinds = <<"cover", "map", "FOR SALE", "FOR SALE", "next_steps">>

(***************************************************************************)
(* Properties of extract_excel_images.                                     *)
(***************************************************************************)
ImagesReturned == pc = "returned"

\* The function got as far as creating its temporary directory.
CreatedTempDir == fnOut.temp_dir # << >>

\* C19: after extract_excel_images returns or raises, on every exit path
\* (images found, no media folder, file not a valid archive, a failure on
\* one image), the temporary directory it created no longer exists.
C19_TempDirRemoved ==
    (ImagesReturned /\ CreatedTempDir) =>
        \A path \in DOMAIN disk : ~IsUnder(fnOut.temp_dir, path)

C19_Witness ==
    /\ ImagesReturned
    /\ CreatedTempDir
    /\ archive = [kind |-> "media", media |-> <<FALSE, TRUE>>]
    /\ ~fnOut.raised
    /\ DOMAIN fnOut.image_dict = {2}
    /\ disk = OtherRunDisk

\* The steps compute what extract_excel_images is taken to return elsewhere.
StepsAgreeWithResult ==
    (ImagesReturned /\ ~fnOut.raised) =>
        /\ DOMAIN fnOut.image_dict = DOMAIN extract_excel_images(archive)
        /\ \A k \in DOMAIN fnOut.image_dict :
              fnOut.image_dict[k] = extract_excel_images(archive)[k]

\* The directory exists while the function works in it.
TempDirWhileWorking ==
    pc \in {"copy", "unzip", "convert", "finally"} => fnOut.temp_dir \in DOMAIN disk

(***************************************************************************)
(* Properties of requests handled at the same time.                        *)
(***************************************************************************)
\* The request has staged its upload and has not yet answered.
Running(r) == pc = "serving" /\ reqs[r].pc \in {"read", "process", "generate", "send"}

\* C20: two report generations running concurrently never read or write
\* the same staged upload file or the same output PDF path: the upload path
\* and the output path of a request are its own, so that the file of one
\* request is not overwritten or served by another.
C20_PathsOwnedByRequest ==
    pc = "serving" =>
        /\ \A r1 \in DOMAIN reqs, r2 \in DOMAIN reqs :
              (r1 # r2 /\ Running(r1) /\ Running(r2)) =>
                  /\ reqs[r1].filepath # reqs[r2].filepath
                  /\ reqs[r1].pdf_path # NoPath => reqs[r1].pdf_path # reqs[r2].pdf_path
        /\ \A r \in DOMAIN reqs :
              /\ reqs[r].df \in {Nobody, r}
              /\ reqs[r].images \in {Nobody, r}
              /\ reqs[r].sent \in {Nobody, r}

\* Requests that differ in file name and in business type keep apart.
DistinctNamesKeepApart ==
    (pc = "serving"
       /\ \A r1 \in DOMAIN reqs, r2 \in DOMAIN reqs :
             r1 # r2 => /\ reqs[r1].filename # reqs[r2].filename
                        /\ reqs[r1].business_type # reqs[r2].business_type) =>
        \A r \in DOMAIN reqs :
            /\ reqs[r].df \in {Nobody, r}
            /\ reqs[r].images \in {Nobody, r}
            /\ reqs[r].sent \in {Nobody, r}

\* A request is answered with the report of another request's file.
ServedAnothersReport ==
    pc = "serving" /\ \E r \in DOMAIN reqs : reqs[r].sent \notin {Nobody, r}


(***************************************************************************)
(* Brand presets.  generate_pdf of pdf_generator.py and build_html of      *)
(* html_builder.py each derive the brand-dependent assets of a report from *)
(* the brand key business_type; a key is a sequence of characters.         *)
(***************************************************************************)
Busivet == <<"b","u","s","i","v","e","t">>

Busihealth == <<"b","u","s","i","h","e","a","l","t","h">>

\* The assets of the two presets; an image is named by the stem and the
\* suffix of its file name.
BusivetPreset ==
    [logo       |-> <<Busivet, "_logo.png">>,
     watermark  |-> <<Busivet, "_watermark.png">>,
     website    |-> "BUSIVET.COM.AU",
     email      |-> "BEN@BUSIVET.COM.AU",
     first_line |-> "Vet Partners"]

BusihealthPreset ==
    [logo       |-> <<Busihealth, "_logo.png">>,
     watermark  |-> <<Busihealth, "_watermark.png">>,
     website    |-> "BUSIHEALTH.COM",
     email      |-> "BEN@BUSIHEALTH.COM",
     first_line |-> "Health Partners"]

\* s[4:]
FromFifth(s) == IF Len(s) <= 4 THEN << >> ELSE SubSeq(s, 5, Len(s))

Busi == <<"B","u","s","i">>

\* generate_pdf: if business_type.lower() == 'busivet': ... else: ...
generate_pdf_assets(business_type) ==
    IF Lower(business_type) = Busivet THEN BusivetPreset ELSE BusihealthPreset

\* create_next_steps_page: f'Busi{business_type.capitalize()[4:]}'
create_next_steps_page_brand(business_type) ==
    Busi \o FromFifth(Capitalize(business_type))

\* build_html: the image paths are formatted from the key itself, the
\* texts are chosen by business_type.lower() == 'busivet'.
build_html_assets(business_type) ==
    [logo       |-> <<business_type, "_logo.png">>,
     watermark  |-> <<business_type, "_watermark.png">>,
     website    |-> IF Lower(business_type) = Busivet
                    THEN "BUSIVET.COM.AU" ELSE "BUSIHEALTH.COM",
     email      |-> IF Lower(business_type) = Busivet
                    THEN "BEN@BUSIVET.COM.AU" ELSE "BEN@BUSIHEALTH.COM",
     first_line |-> IF Lower(business_type) = Busivet
                    THEN "Vet Partners" ELSE "Health Partners"]

\* The next-steps template: Busi{{ business_type[4:]|capitalize }}
get_next_steps_template_brand(business_type) ==
    Busi \o Capitalize(FromFifth(business_type))

\* The spellings of a word in upper and lower case letters.
CaseVariants(w) ==
    {[i \in 1..Len(w) |-> IF i \in S THEN UpperChar(w[i]) ELSE w[i]] :
        S \in SUBSET (1..Len(w))}

\* Keys that name neither preset.
UnrecognizedKeys ==
    {<<"a","c","m","e">>, <<"v","e","t">>, <<"b","u","s","i">>,
     <<"b","u","s","i","v","e","t","s">>, <<"b","u","s","i","d","e","n","t">>}

BrandKeys == CaseVariants(Busivet) \cup CaseVariants(Busihealth) \cup UnrecognizedKeys

NoBrand == [composer |-> "", assets |-> NoValue, brand_name |-> << >>]

InitBrand ==
    /\ header = WellFormedHeader
    /\ table = << >>
    /\ archive = [kind |-> "nopath", media |-> << >>]
    /\ pc = "brand"
    /\ calls = << >>
    /\ result = NoResult
    /\ document = NoDocument
    /\ fnIn \in BrandKeys
    /\ fnOut = NoBrand
    /\ disk = EmptyDisk
    /\ reqs = NoRequests
    /\ clock = 0
    /\ initialization_complete = TRUE

\* generate_pdf(data, business_type, ...) of pdf_generator.py
GeneratePdfBrand ==
    /\ pc = "brand"
    /\ fnOut' = [composer   |-> "pdf_generator",
                 assets     |-> generate_pdf_assets(fnIn),
                 brand_name |-> create_next_steps_page_brand(fnIn)]
    /\ pc' = "branded"
    /\ UNCHANGED <<initialization_complete, header, table, archive, calls, result, document, fnIn, disk, reqs, clock>>

\* HtmlBuilder.build_html(data, business_type, ...) of html_builder.py
BuildHtmlBrand ==
    /\ pc = "brand"
    /\ fnOut' = [composer   |-> "html_builder",
                 assets     |-> build_html_assets(fnIn),
                 brand_name |-> get_next_steps_template_brand(fnIn)]
    /\ pc' = "branded"
    /\ UNCHANGED <<initialization_complete, header, table, archive, calls, result, document, fnIn, disk, reqs, clock>>

NextBrand == GeneratePdfBrand \/ BuildHtmlBrand

SpecBrand == InitBrand /\ [][NextBrand]_vars

Branded == pc = "branded"

\* C21: for every brand key the composer takes all the brand-dependent
\* assets of the report (logo, watermark, website, email, salutation line)
\* from one of the two presets, the default one for an unrecognized key.
C21_AssetsFromOnePreset ==
    Branded =>
        /\ fnOut.assets \in {BusivetPreset, BusihealthPreset}
        /\ (Lower(fnIn) # Busivet => fnOut.assets = BusihealthPreset)

\* The direct-drawing composer alone takes all assets from one preset.
DirectComposerAssetsFromOnePreset ==
    (Branded /\ fnOut.composer = "pdf_generator") =>
        /\ fnOut.assets \in {BusivetPreset, BusihealthPreset}
        /\ (Lower(fnIn) # Busivet => fnOut.assets = BusihealthPreset)

\* The HTML composer takes the texts from one preset for every key, and
\* the images too when the key is spelled as the preset.
HtmlComposerTextsFromOnePreset ==
    (Branded /\ fnOut.composer = "html_builder") =>
        /\ \E preset \in {BusivetPreset, BusihealthPreset} :
              /\ fnOut.assets.website = preset.website
              /\ fnOut.assets.email = preset.email
              /\ fnOut.assets.first_line = preset.first_line
        /\ (fnIn \in {Busivet, Busihealth} =>
               fnOut.assets \in {BusivetPreset, BusihealthPreset})


(***************************************************************************)
(* C25.  The brand name on the closing page.                               *)
(***************************************************************************)
BusiVet == <<"B","u","s","i","V","e","t">>

BusiHealth == <<"B","u","s","i","H","e","a","l","t","h">>

\* The name of the preset that business_type.lower() == 'busivet' selects.
SelectedPresetName(business_type) ==
    IF Lower(business_type) = Busivet THEN BusiVet ELSE BusiHealth

\* C25: for every brand key, the brand name written into the second
\* paragraph of the closing page is the name of the preset selected for the
\* report (BusiVet or BusiHealth), also for an unrecognized key and for a
\* key in other letter case.
C25_BrandNameOfSelectedPreset ==
    Branded => fnOut.brand_name = SelectedPresetName(fnIn)

\* The template writes the preset's name for every spelling of the two
\* preset keys.
TemplateNamesRecognizedKeys ==
    (Branded /\ fnOut.composer = "html_builder"
             /\ Lower(fnIn) \in {Busivet, Busihealth}) =>
        fnOut.brand_name = SelectedPresetName(fnIn)

\* The direct-drawing composer writes "Busi" and the rest of the key in
\* lower case: Busivet, Busihealth.
DirectComposerNameInLowerCase ==
    (Branded /\ fnOut.composer = "pdf_generator") =>
        fnOut.brand_name = Busi \o Lower(FromFifth(fnIn))

\* The direct-drawing composer has written "Busivet" for the key 'busivet'.
DirectComposerWroteBusivet ==
    /\ Branded
    /\ fnOut.composer = "pdf_generator"
    /\ fnIn = Busivet
    /\ fnOut.brand_name = <<"B","u","s","i","v","e","t">>

\* Either composer has written "Busi" for the key 'acme'.
WroteBusiForAcme ==
    /\ Branded
    /\ fnIn = <<"a","c","m","e">>
    /\ fnOut.brand_name = Busi


(***************************************************************************)
(* C22.  A source file without images.                                     *)
(***************************************************************************)
\* The file exists, and it is not an archive, or has no media folder, or
\* has no image in it.
NoImagesInFile ==
    \/ archive.kind \in {"notzip", "nomedia"}
    \/ archive.kind = "media" /\ archive.media = << >>

NoImageAttached(properties) ==
    \A j \in 1..Len(properties) : properties[j].image_data = None

\* C22: for an existing file that holds no images (no image files, no media
\* folder, or not an archive at all, such as a CSV) extract_excel_images
\* returns the empty mapping, and process_excel_data goes on to return the
\* statistics and the property lists, with no image on any property.
C22_NoImagesContinues ==
    (Processed /\ NoImagesInFile /\ MissingColumns(header) = << >> /\ PricesFinite) =>
        /\ extract_excel_images(archive) = << >>
        /\ Returned
        /\ DOMAIN result.statistics = {"for_lease", "already_leased", "for_sale", "sold"}
        /\ Len(result.for_lease_properties) = Len(MatchingIdx(table, "For Lease", "T"))
        /\ Len(result.for_sale_properties) = Len(MatchingIdx(table, "For Sale", "T"))
        /\ NoImageAttached(result.for_lease_properties)
        /\ NoImageAttached(result.for_sale_properties)

\* A file that is not an archive was processed into a report with entries.
C22_Witness ==
    /\ Processed
    /\ archive.kind = "notzip"
    /\ Returned
    /\ Len(result.for_lease_properties) > 0
    /\ Len(result.for_sale_properties) > 0
    /\ NoImageAttached(result.for_lease_properties)

\* Step by step: unless interrupted, extract_excel_images returns the empty
\* mapping for an existing file without images.
StepsGiveEmptyMapping ==
    (pc = "returned" /\ ~fnOut.raised /\ NoImagesInFile) => fnOut.image_dict = << >>


(***************************************************************************)
(* C23.  The keys of the image mapping.                                    *)
(***************************************************************************)
\* C23: the mapping extract_excel_images returns is keyed by ordinal
\* position: its keys are exactly 1..n, n the number of images in it,
\* whichever of the media files could be read.
C23_KeysAreOneToN ==
    (ImagesReturned /\ ~fnOut.raised) =>
        DOMAIN fnOut.image_dict = 1..Cardinality(DOMAIN fnOut.image_dict)

\* A key is the position of its file among the image files of xl/media.
KeysArePositionsOfReadFiles ==
    (ImagesReturned /\ ~fnOut.raised /\ archive.kind = "media") =>
        DOMAIN fnOut.image_dict = {k \in 1..Len(archive.media) : archive.media[k]}

\* When every file is read the keys are 1..n.
KeysAreOneToNWhenAllRead ==
    (ImagesReturned /\ ~fnOut.raised /\ archive.kind = "media"
        /\ \A k \in 1..Len(archive.media) : archive.media[k]) =>
        DOMAIN fnOut.image_dict = 1..Len(archive.media)

\* The first file could not be read and the mapping has the key 2 only.
ReturnedWithGap ==
    /\ ImagesReturned
    /\ ~fnOut.raised
    /\ archive.media = <<FALSE, TRUE>>
    /\ DOMAIN fnOut.image_dict = {2}


(***************************************************************************)
(* The statistics table of the map page, as create_map_page of             *)
(* pdf_generator.py and the map page template draw it: for each category   *)
(* row the three numbers and whether the 'Meet Criteria' cell is set off   *)
(* (an orange box, the class highlighted-cell).                            *)
(***************************************************************************)
MaxCount == 2

CategoryKeys == <<"for_lease", "already_leased", "for_sale", "sold">>

\* The statistics of one category: criteria rows among total rows.
CategoryStats ==
    {[total |-> p[1], criteria |-> p[2], avg_price |-> IF p[2] = 0 THEN 0 ELSE 1200] :
        p \in {q \in (0..MaxCount) \X (0..MaxCount) : q[2] <= q[1]}}

StatisticsValues == [Range(CategoryKeys) -> CategoryStats]

\* The table style of create_map_page: ('BOX', (2, 1), (2, 1), ...) and
\* ('BOX', (2, 3), (2, 3), ...), the 'Meet Criteria' cells of table rows 1
\* and 3, For Lease and For Sale.
BoxedRows == {1, 3}

create_map_page_table(statistics) ==
    [r \in 1..Len(CategoryKeys) |->
        [category   |-> CategoryKeys[r],
         total      |-> statistics[CategoryKeys[r]].total,
         criteria   |-> statistics[CategoryKeys[r]].criteria,
         avg_price  |-> statistics[CategoryKeys[r]].avg_price,
         emphasized |-> r \in BoxedRows]]

\* The rows of the template that carry
\* {% if statistics.<category>.criteria > 0 %}class="highlighted-cell"{% endif %}
HighlightRows == {"for_lease", "for_sale"}

get_map_page_template_table(statistics) ==
    [r \in 1..Len(CategoryKeys) |->
        [category   |-> CategoryKeys[r],
         total      |-> statistics[CategoryKeys[r]].total,
         criteria   |-> statistics[CategoryKeys[r]].criteria,
         avg_price  |-> statistics[CategoryKeys[r]].avg_price,
         emphasized |-> /\ CategoryKeys[r] \in HighlightRows
                        /\ statistics[CategoryKeys[r]].criteria > 0]]

NoTable == [composer |-> "", rows |-> << >>]

InitStatistics ==
    /\ header = WellFormedHeader
    /\ table = << >>
    /\ archive = [kind |-> "nopath", media |-> << >>]
    /\ pc = "statistics"
    /\ calls = << >>
    /\ result = NoResult
    /\ document = NoDocument
    /\ fnIn \in StatisticsValues
    /\ fnOut = NoTable
    /\ disk = EmptyDisk
    /\ reqs = NoRequests
    /\ clock = 0
    /\ initialization_complete = TRUE

\* create_map_page(logo_path, map_path, location, report_date, statistics, website)
CreateMapPage ==
    /\ pc = "statistics"
    /\ fnOut' = [composer |-> "pdf_generator", rows |-> create_map_page_table(fnIn)]
    /\ pc' = "drawn"
    /\ UNCHANGED <<initialization_complete, header, table, archive, calls, result, document, fnIn, disk, reqs, clock>>

\* The map page template rendered with statistics=data['statistics'].
RenderMapPageTemplate ==
    /\ pc = "statistics"
    /\ fnOut' = [composer |-> "html_builder", rows |-> get_map_page_template_table(fnIn)]
    /\ pc' = "drawn"
    /\ UNCHANGED <<initialization_complete, header, table, archive, calls, result, document, fnIn, disk, reqs, clock>>

NextStatistics == CreateMapPage \/ RenderMapPageTemplate

SpecStatistics == InitStatistics /\ [][NextStatistics]_vars

Drawn == pc = "drawn"

\* C24: on the statistics page, in each of the four category rows the
\* 'Meet Criteria' cell is set off exactly when the criteria count of the
\* category is greater than 0.
C24_EmphasizedIffPositive ==
    Drawn =>
        \A r \in 1..Len(fnOut.rows) :
            fnOut.rows[r].emphasized <=> (fnOut.rows[r].criteria > 0)

\* Every row shows the numbers of its category.
RowsShowTheStatistics ==
    Drawn =>
        /\ Len(fnOut.rows) = 4
        /\ \A r \in 1..4 :
              /\ fnOut.rows[r].total = fnIn[CategoryKeys[r]].total
              /\ fnOut.rows[r].criteria = fnIn[CategoryKeys[r]].criteria
              /\ fnOut.rows[r].avg_price = fnIn[CategoryKeys[r]].avg_price

\* The template sets off the For Lease and For Sale cells exactly when
\* their count is greater than 0, and the Leased and Sold cells never.
TemplateEmphasis ==
    (Drawn /\ fnOut.composer = "html_builder") =>
        \A r \in 1..4 :
            fnOut.rows[r].emphasized <=>
                (r \in {1, 3} /\ fnOut.rows[r].criteria > 0)

\* The direct-drawing composer boxes the For Lease and For Sale cells
\* whatever their count, and the Leased and Sold cells never.
DirectComposerEmphasis ==
    (Drawn /\ fnOut.composer = "pdf_generator") =>
        \A r \in 1..4 : fnOut.rows[r].emphasized <=> r \in {1, 3}

\* A For Lease cell with count 0 was boxed.
BoxedZero ==
    /\ Drawn
    /\ fnOut.rows[1].criteria = 0
    /\ fnOut.rows[1].emphasized

\* A Sold cell with a count above 0 was not set off, in the template.
PositiveSoldNotEmphasized ==
    /\ Drawn
    /\ fnOut.composer = "html_builder"
    /\ fnOut.rows[4].criteria > 0
    /\ ~fnOut.rows[4].emphasized


(***************************************************************************)
(* C26.  The property lists and the criteria counts.                       *)
(***************************************************************************)
\* C26: for every table process_excel_data accepts, for_lease_properties
\* has as many entries as statistics.for_lease.criteria says, and
\* for_sale_properties as many as statistics.for_sale.criteria.
C26_ListLengthsAreCriteria ==
    (Processed /\ Returned) =>
        /\ Len(result.for_lease_properties) = result.statistics.for_lease.criteria
        /\ Len(result.for_sale_properties) = result.statistics.for_sale.criteria

\* An accepted table with listed rows of both categories and a For Lease
\* row that is left out.
C26_Witness ==
    /\ Processed
    /\ Returned
    /\ Len(result.for_lease_properties) >= 1
    /\ Len(result.for_sale_properties) >= 1
    /\ result.statistics.for_lease.total > result.statistics.for_lease.criteria


(***************************************************************************)
(* C27.  validate_headers and the required-column check.                   *)
(***************************************************************************)
\* The labels validate_headers enforces.
EnforcedLabels == {expected_headers[k][2] : k \in 1..Len(expected_headers)}

\* C27: a table whose header row passes validate_headers also passes the
\* required-column check of process_excel_data; every name in
\* required_columns is one of the labels validate_headers enforces.
C27_ValidatedHeaderPassesColumnCheck ==
    (Processed /\ validate_headers(header).valid) =>
        /\ result.status # "ValueError"
        /\ Range(required_columns) \subseteq EnforcedLabels

\* The required columns but 'Sale Price' are enforced labels.
RequiredButSalePriceEnforced ==
    Range(required_columns) \ {"Sale Price"} \subseteq EnforcedLabels

\* A header row that validate_headers accepts was rejected for the missing
\* column 'Sale Price'.
ValidHeaderRejected ==
    /\ Processed
    /\ validate_headers(header).valid
    /\ result.status = "ValueError"
    /\ result.missing = <<"Sale Price">>


(***************************************************************************)
(* Start-up of app.py.  The module sets initialization_complete = False,   *)
(* starts the thread that runs initialize_app_background, and then serves  *)
(* requests; check_initialization runs before every request.  pc is the    *)
(* position of the thread, calls the outcome of each of its steps, fnIn    *)
(* the last request and fnOut the answer to it.                            *)
(***************************************************************************)
NoResponse == [status |-> 0, body |-> "", handler |-> ""]

Response(status, body, handler) == [status |-> status, body |-> body, handler |-> handler]

\* The paths of the guard that are let through in every state.
ExemptPaths == {"/health", "/status", "/favicon.ico"}

\* A guard that lets every request through.
check_initialization_open(path, complete) == NoResponse

\* check_initialization(): NoResponse stands for 'return None', the request
\* goes on to its handler.
check_initialization(path, complete) ==
    IF path \in ExemptPaths THEN NoResponse
    ELSE IF ~complete
    THEN IF path = "/"
         THEN Response(200, "index.html, flash: initializing", "")
         ELSE Response(503, "Application is initializing, please try again shortly", "")
    ELSE NoResponse

\* The routes of the application: path, methods and handler.
Routes ==
    {[path |-> "/health",      methods |-> {"GET"},         handler |-> "health_check"],
     [path |-> "/status",      methods |-> {"GET"},         handler |-> "status"],
     [path |-> "/",            methods |-> {"GET", "POST"}, handler |-> "index"],
     [path |-> "/reset",       methods |-> {"POST"},        handler |-> "reset"],
     [path |-> "/favicon.ico", methods |-> {"GET"},         handler |-> "favicon"]}

\* What each handler answers; found tells whether static/favicon.ico exists.
Handle(handler, method, found) ==
    CASE handler = "health_check" -> Response(200, "OK", handler)
      [] handler = "status"       -> Response(200, "status_info", handler)
      [] handler = "index"        -> IF method = "POST"
                                     THEN Response(200, "form processed", handler)
                                     ELSE Response(200, "index.html", handler)
      [] handler = "reset"        -> Response(200, "Form reset successful", handler)
      [] handler = "favicon"      -> IF found THEN Response(200, "favicon.ico", handler)
                                     ELSE Response(204, "", handler)

\* The dispatch of a request that the guard let through.
Dispatch(path, method, found) ==
    IF ~\E route \in Routes : route.path = path THEN Response(404, "Not Found", "")
    ELSE LET route == CHOOSE r \in Routes : r.path = path
         IN  IF method \notin route.methods THEN Response(405, "Method Not Allowed", "")
             ELSE Handle(route.handler, method, found)

\* The answer to a request, with the value of the flag the guard read.
Answer(path, method, found, complete) ==
    LET early == check_initialization(path, complete)
        response == IF early # NoResponse THEN early ELSE Dispatch(path, method, found)
    IN  [status |-> response.status, body |-> response.body,
         handler |-> response.handler, initialized |-> complete]

RequestPaths == ExemptPaths \cup {"/", "/reset", "/static/css/style.css", "/unknown"}

RequestMethods == {"GET", "POST"}

NoRequest == [path |-> "", method |-> ""]

NoAnswer == [status |-> 0, body |-> "", handler |-> "", initialized |-> FALSE]

\* The value of the flag after the outer except clause, had it only logged.
initialize_app_background_except_logs(complete) == complete

\* except Exception as e: logger.error(...); initialization_complete = True
initialize_app_background_except(complete) == TRUE

InitBoot ==
    /\ header = WellFormedHeader
    /\ table = << >>
    /\ archive = [kind |-> "nopath", media |-> << >>]
    /\ pc = "loaded"
    /\ calls = << >>
    /\ result = NoResult
    /\ document = NoDocument
    /\ fnIn = NoRequest
    /\ fnOut = NoAnswer
    /\ disk = EmptyDisk
    /\ reqs = NoRequests
    /\ clock = 0
    /\ initialization_complete = FALSE

\* background_init_thread.start()
StartThread ==
    /\ pc = "loaded"
    /\ pc' = "logging"
    /\ UNCHANGED <<initialization_complete, header, table, archive, calls, result,
                   document, fnIn, fnOut, disk, reqs, clock>>

\* The inner try that sets up file logging; its except clause logs.
SetUpFileLogging ==
    /\ pc = "logging"
    /\ \E failed \in BOOLEAN :
          calls' = Append(calls, IF failed THEN "file logging failed" ELSE "file logging")
    /\ pc' = "directories"
    /\ UNCHANGED <<initialization_complete, header, table, archive, result,
                   document, fnIn, fnOut, disk, reqs, clock>>

\* The loop of os.makedirs; an exception leaves the outer try.
CreateDirectories ==
    /\ pc = "directories"
    /\ \E failed \in BOOLEAN :
          /\ calls' = Append(calls, IF failed THEN "makedirs failed" ELSE "makedirs")
          /\ pc' = IF failed THEN "except" ELSE "weasyprint"
    /\ UNCHANGED <<initialization_complete, header, table, archive, result,
                   document, fnIn, fnOut, disk, reqs, clock>>

\* verify_weasyprint() catches what its check raises and returns a boolean.
VerifyWeasyprint ==
    /\ pc = "weasyprint"
    /\ \E weasyprint_status \in BOOLEAN :
          calls' = Append(calls, IF weasyprint_status THEN "weasyprint"
                                 ELSE "weasyprint failed")
    /\ pc' = "imports"
    /\ UNCHANGED <<initialization_complete, header, table, archive, result,
                   document, fnIn, fnOut, disk, reqs, clock>>

\* The inner try that imports the utility modules; its except clause logs.
ImportModules ==
    /\ pc = "imports"
    /\ \E failed \in BOOLEAN :
          calls' = Append(calls, IF failed THEN "import failed" ELSE "import")
    /\ pc' = "mark"
    /\ UNCHANGED <<initialization_complete, header, table, archive, result,
                   document, fnIn, fnOut, disk, reqs, clock>>

\* initialization_complete = True, at the end of the outer try
MarkComplete ==
    /\ pc = "mark"
    /\ initialization_complete' = TRUE
    /\ pc' = "done"
    /\ UNCHANGED <<header, table, archive, calls, result, document, fnIn, fnOut,
                   disk, reqs, clock>>

\* The outer except clause.
ExceptClause ==
    /\ pc = "except"
    /\ initialization_complete' = initialize_app_background_except(initialization_complete)
    /\ pc' = "done"
    /\ UNCHANGED <<header, table, archive, calls, result, document, fnIn, fnOut,
                   disk, reqs, clock>>

\* initialize_app_background(), one step at a time.
InitializeAppBackground ==
    \/ SetUpFileLogging
    \/ CreateDirectories
    \/ VerifyWeasyprint
    \/ ImportModules
    \/ MarkComplete
    \/ ExceptClause

\* One request, from check_initialization to the answer.
HandleRequest ==
    /\ pc # "loaded"
    /\ \E path \in RequestPaths, method \in RequestMethods, found \in BOOLEAN :
          /\ fnIn' = [path |-> path, method |-> method]
          /\ fnOut' = Answer(path, method, found, initialization_complete)
    /\ UNCHANGED <<initialization_complete, header, table, archive, pc, calls, result,
                   document, disk, reqs, clock>>

NextBoot == StartThread \/ InitializeAppBackground \/ HandleRequest

SpecBoot == InitBoot /\ [][NextBoot]_vars

\* The thread, once started, is scheduled until it ends.
SpecBootFair == SpecBoot /\ WF_vars(InitializeAppBackground)

Answered == fnIn # NoRequest

\* C28: while initialization_complete is false no request but those for
\* /health, /status and /favicon.ico reaches its handler: a form submitted
\* to '/' is not processed into a report, and every other path is answered
\* 503; a GET of /health is answered 200 in every state.
C28_GuardedWhileInitializing ==
    Answered =>
        /\ (~fnOut.initialized /\ fnIn.path \notin ExemptPaths) =>
              /\ fnOut.handler = ""
              /\ fnOut.body # "form processed"
              /\ (fnIn.path # "/" => fnOut.status = 503)
        /\ (fnIn.path = "/health" /\ fnIn.method = "GET") => fnOut.status = 200

\* A form was submitted to '/' while the flag was false and answered with
\* the index page, and the thread has not yet set the flag.
C28_Witness ==
    /\ Answered
    /\ ~initialization_complete
    /\ ~fnOut.initialized
    /\ fnIn = [path |-> "/", method |-> "POST"]
    /\ fnOut.status = 200
    /\ fnOut.handler = ""

\* Once the flag is true the guard lets every request through.
ServedOnceInitialized ==
    (Answered /\ fnOut.initialized /\ fnIn = [path |-> "/", method |-> "POST"]) =>
        fnOut.body = "form processed"

\* /health was answered 200 while the flag was false.
HealthWhileInitializing ==
    /\ Answered
    /\ ~fnOut.initialized
    /\ fnIn.path = "/health"
    /\ fnOut.status = 200

Started == pc # "loaded"

\* C29: once the initialization thread is started it eventually sets
\* initialization_complete to true, whether its steps (file logging,
\* directory creation, renderer check, module import) succeed or fail, and
\* the flag never goes back to false.
C29_EventuallyInitialized ==
    /\ Started ~> initialization_complete
    /\ [](initialization_complete => []initialization_complete)

\* The flag is true after a thread in which every step failed that can.
C29_Witness ==
    /\ initialization_complete
    /\ pc = "done"
    /\ calls = <<"file logging failed", "makedirs failed">>

\* The flag is true at the end of the thread, whatever the steps did.
FlagSetAtEnd == pc = "done" => initialization_complete

\* The flag is true after the renderer check and the import failed.
InitializedAfterFailedImports ==
    /\ initialization_complete
    /\ calls = <<"file logging", "makedirs", "weasyprint failed", "import failed">>


(***************************************************************************)
(* The listing pages of the HTML composer: _add_property_pages of          *)
(* html_builder.py with the property item template.  The header template   *)
(* opens a page and the footer template closes it.                         *)
(***************************************************************************)
\* The property item template: the entry, and under it the divider of
\* {% if not loop.last and loop.index != properties_per_page
\*       and loop.index != properties_per_page * 2 %}
\* coloured by loop.index % 2 == 0 and "orange-divider" or "blue-divider".
get_property_item_template(section_title, property_data, loop_index, loop_last, properties_per_page) ==
    <<[kind |-> "property", section |-> section_title, row |-> property_data.row,
       image |-> PropertyImage(property_data), color |-> ""]>>
    \o (IF ~loop_last /\ loop_index # properties_per_page
                      /\ loop_index # properties_per_page * 2
        THEN <<[Element("divider", section_title) EXCEPT
                   !.color = IF loop_index % 2 = 0 THEN "orange" ELSE "blue"]>>
        ELSE << >>)

\* _add_property_pages: for each chunk of three the page header, the items
\* with loop = {'index': i+1, 'last': i == len(chunk)-1}, the page footer.
add_property_pages(section_title, properties) ==
    LET properties_per_page == 3
        property_chunks == Chunks(properties)
    IN  Concat([c \in 1..Len(property_chunks) |->
            <<Element("header", section_title)>>
            \o Concat([j \in 1..Len(property_chunks[c]) |->
                    get_property_item_template(section_title, property_chunks[c][j], j,
                                               j - 1 = Len(property_chunks[c]) - 1,
                                               properties_per_page)])
            \o <<Element("footer", section_title)>>])

\* if data['for_lease_properties']: self._add_property_pages(...)
HtmlListingSection(section_title, properties) ==
    IF properties # << >> THEN add_property_pages(section_title, properties) ELSE << >>

\* The pages of the HTML parts: a footer ends a page.
HtmlPagesOf(parts) ==
    LET scan[k \in 0..Len(parts)] ==
            IF k = 0 THEN [pages |-> << >>, page |-> << >>]
            ELSE LET before == scan[k-1]
                 IN  IF parts[k].kind = "footer"
                     THEN [pages |-> Append(before.pages, before.page), page |-> << >>]
                     ELSE [pages |-> before.pages, page |-> Append(before.page, parts[k])]
        last == scan[Len(parts)]
    IN  IF last.page = << >> THEN last.pages ELSE Append(last.pages, last.page)

\* What a page shows of its properties and dividers: for each, in page
\* order, the kind, the source row and the colour.
PageLayout(pg) ==
    LET shown == SelectSeq(pg, LAMBDA e : e.kind \in {"property", "divider"})
    IN  [k \in 1..Len(shown) |->
            [kind |-> shown[k].kind, row |-> shown[k].row, color |-> shown[k].color]]

\* The layout of a sequence of pages: the pages that list properties.
Layout(pages) ==
    LET listing == SelectSeq(pages, LAMBDA pg : PageLayout(pg) # << >>)
    IN  [p \in 1..Len(listing) |-> PageLayout(listing[p])]

SectionTitles == {"FOR LEASE", "FOR SALE"}

\* n entries of a category as extract_property_data returns them, with or
\* without an image.
ListedProperties(section_title, images) ==
    LET ty == IF section_title = "FOR LEASE" THEN "For Lease" ELSE "For Sale"
    IN  [j \in 1..Len(images) |->
            extract_property_data(j, Row(ty, "T", Price1200), ty, images[j])]

\* For each entry of a list, its image or None.
PropertyImages == SeqsUpTo({None, DataUrl(1)}, MaxProps)

InitLayout ==
    /\ header = WellFormedHeader
    /\ table = << >>
    /\ archive = [kind |-> "nopath", media |-> << >>]
    /\ pc = "layout"
    /\ calls = << >>
    /\ result = NoResult
    /\ document = NoDocument
    /\ \E t \in SectionTitles, images \in PropertyImages :
          fnIn = [section_title |-> t, properties |-> ListedProperties(t, images)]
    /\ fnOut = [direct |-> << >>, html |-> << >>]
    /\ disk = EmptyDisk
    /\ reqs = NoRequests
    /\ clock = 0
    /\ initialization_complete = TRUE

\* generate_pdf: the listing section of the direct-drawing composer.
ComposeDirect ==
    /\ pc = "layout"
    /\ "create_property_pages" \notin Range(calls)
    /\ fnOut' = [fnOut EXCEPT
                    !.direct = Layout(PagesOf(ListingSection(fnIn.section_title,
                                                             fnIn.properties)))]
    /\ calls' = Append(calls, "create_property_pages")
    /\ UNCHANGED <<initialization_complete, header, table, archive, pc, result, document,
                   fnIn, disk, reqs, clock>>

\* build_html: the listing section of the HTML composer.
ComposeHtml ==
    /\ pc = "layout"
    /\ "_add_property_pages" \notin Range(calls)
    /\ fnOut' = [fnOut EXCEPT
                    !.html = Layout(HtmlPagesOf(HtmlListingSection(fnIn.section_title,
                                                                   fnIn.properties)))]
    /\ calls' = Append(calls, "_add_property_pages")
    /\ UNCHANGED <<initialization_complete, header, table, archive, pc, result, document,
                   fnIn, disk, reqs, clock>>

NextLayout == ComposeDirect \/ ComposeHtml

SpecLayout == InitLayout /\ [][NextLayout]_vars

BothComposed == {"create_property_pages", "_add_property_pages"} \subseteq Range(calls)

\* The dividers of a page are blue under its first property and orange
\* under its second, and there is none under its last.
BlueThenOrange(page) ==
    /\ Len(page) \in {1, 3, 5}
    /\ \A k \in 1..Len(page) :
          IF k % 2 = 1 THEN page[k].kind = "property"
          ELSE /\ page[k].kind = "divider"
               /\ page[k].color = IF k = 2 THEN "blue" ELSE "orange"

\* C30: the direct-drawing composer and the HTML-template composer lay out
\* every property list alike: the same chunks of properties on the same
\* pages, a divider at the same positions, and the same colour of each
\* divider, blue after the first property of a page and orange after the
\* second.
C30_SameLayout ==
    BothComposed =>
        /\ fnOut.direct = fnOut.html
        /\ Len(fnOut.direct) = (Len(fnIn.properties) + 2) \div 3
        /\ \A p \in 1..Len(fnOut.direct) : BlueThenOrange(fnOut.direct[p])
        /\ \A p \in 1..Len(fnOut.html) : BlueThenOrange(fnOut.html[p])

\* Both composers laid out five properties on two pages, the first with a
\* blue and an orange divider and the second with a blue one.
C30_Witness ==
    /\ BothComposed
    /\ Len(fnIn.properties) = 5
    /\ Len(fnOut.html) = 2
    /\ Len(fnOut.html[1]) = 5
    /\ fnOut.html[1][2].color = "blue"
    /\ fnOut.html[1][4].color = "orange"
    /\ Len(fnOut.direct[2]) = 3
    /\ fnOut.direct[2][2].color = "blue"


====
